---- MODULE Spec2Model ----
(***************************************************************************)
(* A model of the shorts pipeline of the repository:                       *)
(*   - the crop route and its on-disk clip cache (api/shorts/crop),         *)
(*   - the generate route: parseVTT, generateSegmentsFromDuration,         *)
(*     findBestClips and scoreClip (api/shorts/generate),                   *)
(*   - the download route: chunkSegments and generateSrt.                   *)
(*                                                                         *)
(* Times are integers in milliseconds (the unit the VTT parser delivers;   *)
(* the code divides by 1000 and computes in seconds).  Arithmetic is exact: *)
(* the rounding of IEEE doubles is not modelled.  Texts are strings, read   *)
(* character by character with Len, SubSeq and \o.                          *)
(***************************************************************************)
EXTENDS Integers, Sequences, FiniteSets, TLC

VARIABLES
    \* ---- crop route (api/shorts/crop/route.ts) ----
    file,        \* cache directory: key -> state of <key>.mp4
    writers,     \* key -> requests whose ffmpeg has <key>.mp4 open for writing
    pc,          \* request -> position of its GET handler
    req,         \* request -> its query parameters
    resp,        \* request -> the response it returned
    callerGone,  \* request -> the client has disconnected
    \* ---- generate route (api/shorts/generate/route.ts) ----
    gpc,             \* position of the POST handler
    vttNodes,        \* parseSync's cue nodes of the .vtt file last read
    vttSegments,     \* getTranscript: segments, parseVTT's result for that file
    videoInfo,       \* getVideoInfo's result: [duration |-> ms]
    transcript,      \* getTranscript's result
    scoredWindows,   \* findBestClips: the candidate windows, as found
    selectedWindows, \* findBestClips: the accepted windows, in time order
    shorts,          \* findBestClips' result
    \* ---- download route (api/shorts/download) ----
    dpc,             \* position of the GET handler
    dlSegments,      \* the request's segments parameter, parsed
    dlStart,         \* the request's start parameter (clipStart), ms
    dlEnd,           \* the request's end parameter, ms
    captionStyle,    \* the request's captionStyle: [maxWords |-> n, fontSize |-> n,
                     \* color |-> s, backgroundColor |-> s]; a field is 0 or ""
                     \* when absent
    chunked,         \* generateSrt: chunkSegments' result
    srtEntries,      \* generateSrt: the entries it joins into subtitles.srt
    forceStyle,      \* the force_style of the subtitles filter: [FontSize |-> n,
                     \* PrimaryColour |-> s, BackColour |-> s]
    dlStatus,        \* the response's status, 0 while there is none
    \* ---- edit page (shorts/edit/page.tsx, CaptionOverlay.tsx) ----
    pvpc,            \* "mount" until the effect has loaded the segments, then "ready"
    pvSegments,      \* page state segments: the clip's transcript segments
    pvStyle,         \* page state captionStyle: [maxWords |-> n]
    currentTime,     \* page state currentTime, clip-relative, an exact time <<n, d>>
    currentSegment,  \* SyncedCaptions: <<seg>> found for currentTime, <<>> when none
    captionText      \* SyncedCaptions: <<text>> shown, <<>> for null

cropVars == <<file, writers, pc, req, resp, callerGone>>
genVars == <<gpc, vttNodes, vttSegments, videoInfo, transcript, scoredWindows, selectedWindows, shorts>>

dlVars == <<dpc, dlSegments, dlStart, dlEnd, captionStyle, chunked, srtEntries, forceStyle, dlStatus>>

pvVars == <<pvpc, pvSegments, pvStyle, currentTime, currentSegment, captionText>>

vars == <<cropVars, genVars, dlVars, pvVars>>

(***************************************************************************)
(* Strings and arrays, as the JavaScript built-ins the code calls           *)
(***************************************************************************)

Min(a, b) == IF a <= b THEN a ELSE b
Max(a, b) == IF a >= b THEN a ELSE b
Abs(a) == IF a >= 0 THEN a ELSE -a
SetMax(S) == CHOOSE m \in S : \A n \in S : n <= m

\* s.charAt(i-1): the i-th character, as a string of length 1.
Ch(s, i) == SubSeq(s, i, i)

UpperAlphabet == "ABCDEFGHIJKLMNOPQRSTUVWXYZ"
LowerAlphabet == "abcdefghijklmnopqrstuvwxyz"

UpperLetters == {Ch(UpperAlphabet, i) : i \in 1..26}
LowerOf == [c \in UpperLetters |-> Ch(LowerAlphabet, CHOOSE i \in 1..26 : Ch(UpperAlphabet, i) = c)]
LowerCh(c) == IF c \in UpperLetters THEN LowerOf[c] ELSE c

\* String.prototype.toLowerCase
RECURSIVE toLowerCase(_)
toLowerCase(s) ==
    IF Len(s) = 0 THEN ""
    ELSE IF Len(s) = 1 THEN LowerCh(s)
    ELSE LET h == Len(s) \div 2 IN
         toLowerCase(SubSeq(s, 1, h)) \o toLowerCase(SubSeq(s, h + 1, Len(s)))

\* String.prototype.startsWith
startsWith(s, p) == Len(p) <= Len(s) /\ SubSeq(s, 1, Len(p)) = p

\* String.prototype.includes
includes(s, p) == \E i \in 1..(Len(s) - Len(p) + 1) : SubSeq(s, i, i + Len(p) - 1) = p

\* String.prototype.replace(/pattern/g, replacement) for a literal pattern:
\* the leftmost match is replaced, and the search goes on behind it.
RECURSIVE replaceAll(_, _, _)
replaceAll(s, pattern, replacement) ==
    IF ~includes(s, pattern) THEN s
    ELSE LET first == CHOOSE i \in 1..(Len(s) - Len(pattern) + 1) :
                         /\ SubSeq(s, i, i + Len(pattern) - 1) = pattern
                         /\ \A j \in 1..(i - 1) : SubSeq(s, j, j + Len(pattern) - 1) # pattern
         IN  SubSeq(s, 1, first - 1) \o replacement
               \o replaceAll(SubSeq(s, first + Len(pattern), Len(s)), pattern, replacement)

\* String.prototype.substring(from) and substring(0, to), 0-based as in JS.
substringFrom(s, from) == SubSeq(s, Min(from, Len(s)) + 1, Len(s))
substringTo(s, to) == SubSeq(s, 1, Min(to, Len(s)))

\* The characters the regular expression \s matches, of those texts hold.
Whitespace == {" "}

\* String.prototype.trim
RECURSIVE trimStart(_)
trimStart(s) ==
    IF Len(s) > 0 /\ Ch(s, 1) \in Whitespace THEN trimStart(SubSeq(s, 2, Len(s))) ELSE s
RECURSIVE trimEnd(_)
trimEnd(s) ==
    IF Len(s) > 0 /\ Ch(s, Len(s)) \in Whitespace THEN trimEnd(SubSeq(s, 1, Len(s) - 1)) ELSE s
trim(s) == trimEnd(trimStart(s))

\* The place of each element of a set of numbers in their ascending order.
rankIn(S) == [a \in S |-> Cardinality({x \in S : x <= a})]

\* The maximal runs of non-delimiter characters of s, in order, given the
\* positions where they start and where they end.
runsOf(s, starts, ends) ==
    CHOOSE runs \in
        {[k \in 1..Cardinality(starts) |->
             SubSeq(s, CHOOSE a \in starts : startRank[a] = k,
                       CHOOSE e \in ends : endRank[e] = k)] :
           startRank \in {rankIn(starts)}, endRank \in {rankIn(ends)}} : TRUE

\* split, of a string that is not empty.
piecesOf(s, delims) ==
    CHOOSE pieces \in
        {(IF Ch(s, 1) \in delims THEN <<"">> ELSE <<>>) \o runsOf(s, starts, ends)
             \o (IF Ch(s, Len(s)) \in delims THEN <<"">> ELSE <<>>) :
           starts \in {{i \in 1..Len(s) : Ch(s, i) \notin delims
                                             /\ (i = 1 \/ Ch(s, i - 1) \in delims)}},
           ends \in {{i \in 1..Len(s) : Ch(s, i) \notin delims
                                           /\ (i = Len(s) \/ Ch(s, i + 1) \in delims)}}} : TRUE

\* String.prototype.split(/[delims]+/): the pieces between maximal runs of
\* delimiter characters; a leading or trailing run leaves an empty piece, and
\* the empty string splits into one empty piece.
split(s, delims) ==
    CHOOSE pieces \in {IF Len(str) = 0 THEN <<"">> ELSE piecesOf(str, delims) : str \in {s}} : TRUE

\* text.split(/\s+/)
splitWs(s) == split(s, Whitespace)

\* Array.prototype.join
RECURSIVE join(_, _)
join(words, sep) ==
    IF Len(words) = 0 THEN ""
    ELSE IF Len(words) = 1 THEN words[1]
    ELSE words[1] \o sep \o join(Tail(words), sep)

\* Array.prototype.slice(from, to), 0-based, to exclusive; a negative index
\* counts from the end.
slice(a, from, to) ==
    SubSeq(a, (IF from < 0 THEN Max(Len(a) + from, 0) ELSE Min(from, Len(a))) + 1,
              IF to < 0 THEN Max(Len(a) + to, 0) ELSE Min(to, Len(a)))
\* Array.prototype.slice(-n): the last n elements.
sliceLast(a, n) == SubSeq(a, Max(Len(a) - n, 0) + 1, Len(a))

\* Array.prototype.filter
filter(a, keep(_)) == SelectSeq(a, keep)

\* Array.prototype.sort(cmp) for a comparator (a, b) => key(a) - key(b).
\* The sort is stable (ECMAScript 2019): elements with equal keys keep their
\* order.  An element's place is the number of elements with a smaller key,
\* plus the number of earlier elements with the same key.
sortByKey(a, key(_)) ==
    LET n == Len(a)
        keys == [i \in 1..n |-> key(a[i])]
        place == [i \in 1..n |->
                     Cardinality({j \in 1..n : keys[j] < keys[i] \/ (keys[j] = keys[i] /\ j < i)}) + 1]
    IN  [p \in 1..n |-> a[CHOOSE i \in 1..n : place[i] = p]]

(***************************************************************************)
(* The crop route and the clip cache                                       *)
(***************************************************************************)

\* Bounds of the crop model.
NReq == 3
NKeys == 2

Reqs == 1..NReq
Urls == 1..NKeys

\* getCacheKey: the md5 digest of "<url>-<start>-<end>".  The digest is a
\* function of that string alone; the model names a digest by the string's
\* parts, so equal inputs give equal keys and different inputs different keys.
getCacheKey(url, start, end) == <<url, start, end>>

\* The time range every modelled request asks for (start=0, end=60 are the
\* handler's defaults); requests differ in their url.
Keys == {getCacheKey(u, 0, 60) : u \in Urls}

\* fileExists(path): access() succeeds as soon as the file has been created.
fileExists(k) == file[k] # "absent"

NoResp == [status |-> 0, cache |-> "none", body |-> "none"]

InitCrop ==
    /\ file = [k \in Keys |-> "absent"]
    /\ writers = [k \in Keys |-> {}]
    /\ pc = [r \in Reqs |-> "idle"]
    /\ req = [r \in Reqs |-> [mode |-> "none", key |-> getCacheKey(1, 0, 60)]]
    /\ resp = [r \in Reqs |-> NoResp]
    /\ callerGone = [r \in Reqs |-> FALSE]

Respond(r, status, cache, body) ==
    /\ resp' = [resp EXCEPT ![r] = [status |-> status, cache |-> cache, body |-> body]]
    /\ pc' = [pc EXCEPT ![r] = "done"]

\* A request arrives with ?key=<cacheKey>: the direct lookup.
ArriveKey(r) ==
    /\ pc[r] = "idle"
    /\ \E k \in Keys : req' = [req EXCEPT ![r] = [mode |-> "key", key |-> k]]
    /\ pc' = [pc EXCEPT ![r] = "keyExists"]
    /\ UNCHANGED <<genVars, dlVars, pvVars, file, writers, resp, callerGone>>

\* A request arrives with ?url=..&start=..&end=..; generatedKey is computed.
ArriveUrl(r) ==
    /\ pc[r] = "idle"
    /\ \E u \in Urls :
          req' = [req EXCEPT ![r] = [mode |-> "url", key |-> getCacheKey(u, 0, 60)]]
    /\ pc' = [pc EXCEPT ![r] = "mkdir"]
    /\ UNCHANGED <<genVars, dlVars, pvVars, file, writers, resp, callerGone>>

\* A request arrives without url and without key: 400.
ArriveNoUrl(r) ==
    /\ pc[r] = "idle"
    /\ req' = [req EXCEPT ![r] = [mode |-> "nourl", key |-> req[r].key]]
    /\ Respond(r, 400, "none", "none")
    /\ UNCHANGED <<genVars, dlVars, pvVars, file, writers, callerGone>>

\* Direct lookup: await fileExists(cachedPath).
KeyExists(r) ==
    /\ pc[r] = "keyExists"
    /\ IF fileExists(req[r].key)
          THEN /\ pc' = [pc EXCEPT ![r] = "keyRead"]
               /\ UNCHANGED resp
          ELSE Respond(r, 404, "none", "none")
    /\ UNCHANGED <<genVars, dlVars, pvVars, file, writers, req, callerGone>>

\* Direct lookup: await readFile(cachedPath), answered with X-Cache: HIT.
KeyRead(r) ==
    /\ pc[r] = "keyRead"
    /\ Respond(r, 200, "HIT", file[req[r].key])
    /\ UNCHANGED <<genVars, dlVars, pvVars, file, writers, req, callerGone>>

\* await mkdir(CACHE_DIR, {recursive: true}).
Mkdir(r) ==
    /\ pc[r] = "mkdir"
    /\ pc' = [pc EXCEPT ![r] = "check"]
    /\ UNCHANGED <<genVars, dlVars, pvVars, file, writers, req, resp, callerGone>>

\* "Check if already cached": await fileExists(cachedPath).
CheckCached(r) ==
    /\ pc[r] = "check"
    /\ pc' = [pc EXCEPT ![r] = IF fileExists(req[r].key) THEN "read" ELSE "ytdlp"]
    /\ UNCHANGED <<genVars, dlVars, pvVars, file, writers, req, resp, callerGone>>

\* Cached: await readFile(cachedPath), answered with X-Cache: HIT.
ReadCached(r) ==
    /\ pc[r] = "read"
    /\ Respond(r, 200, "HIT", file[req[r].key])
    /\ UNCHANGED <<genVars, dlVars, pvVars, file, writers, req, callerGone>>

\* yt-dlp returned the direct url; the handler starts ffmpeg (execAsync).
YtDlpOk(r) ==
    /\ pc[r] = "ytdlp"
    /\ pc' = [pc EXCEPT ![r] = "ffmpeg"]
    /\ UNCHANGED <<genVars, dlVars, pvVars, file, writers, req, resp, callerGone>>

\* yt-dlp failed, timed out or printed no url: 500.
YtDlpFail(r) ==
    /\ pc[r] = "ytdlp"
    /\ Respond(r, 500, "none", "none")
    /\ UNCHANGED <<genVars, dlVars, pvVars, file, writers, req, callerGone>>

\* ffmpeg -y ... "<cachedPath>": the output is opened (created or truncated)
\* at the cache path itself and filled while encoding.
FfmpegOpenOutput(r) ==
    /\ pc[r] = "ffmpeg"
    /\ file' = [file EXCEPT ![req[r].key] = "partial"]
    /\ writers' = [writers EXCEPT ![req[r].key] = @ \cup {r}]
    /\ pc' = [pc EXCEPT ![r] = "encoding"]
    /\ UNCHANGED <<genVars, dlVars, pvVars, req, resp, callerGone>>

\* ffmpeg exits 0: its output is complete unless another ffmpeg still has
\* the same path open and is rewriting it.
FfmpegExitOk(r) ==
    /\ pc[r] = "encoding"
    /\ LET k == req[r].key IN
          /\ writers' = [writers EXCEPT ![k] = @ \ {r}]
          /\ file' = [file EXCEPT ![k] = IF writers[k] \ {r} = {} THEN "complete" ELSE "partial"]
    /\ pc' = [pc EXCEPT ![r] = "readOut"]
    /\ UNCHANGED <<genVars, dlVars, pvVars, req, resp, callerGone>>

\* ffmpeg is killed by the exec timeout or exits non-zero: execAsync rejects,
\* the catch block answers 500; nothing removes what ffmpeg has written.
FfmpegFail(r) ==
    /\ pc[r] \in {"ffmpeg", "encoding"}
    /\ LET k == req[r].key IN
          IF pc[r] = "encoding"
             THEN /\ writers' = [writers EXCEPT ![k] = @ \ {r}]
                  /\ file' = [file EXCEPT ![k] = IF writers[k] \ {r} = {} THEN "aborted" ELSE "partial"]
             ELSE UNCHANGED <<file, writers>>
    /\ Respond(r, 500, "none", "none")
    /\ UNCHANGED <<genVars, dlVars, pvVars, req, callerGone>>

\* "Read and return the file": await readFile(cachedPath), X-Cache: MISS.
ReadOut(r) ==
    /\ pc[r] = "readOut"
    /\ Respond(r, 200, "MISS", file[req[r].key])
    /\ UNCHANGED <<genVars, dlVars, pvVars, file, writers, req, callerGone>>

\* The client disconnects while its request is in flight.  The handler never
\* looks at request.signal, so it runs on.
ClientAbort(r) ==
    /\ pc[r] \notin {"idle", "done"}
    /\ ~callerGone[r]
    /\ callerGone' = [callerGone EXCEPT ![r] = TRUE]
    /\ UNCHANGED <<genVars, dlVars, pvVars, file, writers, pc, req, resp>>

NextCrop ==
    \E r \in Reqs :
        \/ ArriveKey(r)
        \/ ArriveUrl(r)
        \/ ArriveNoUrl(r)
        \/ KeyExists(r)
        \/ KeyRead(r)
        \/ Mkdir(r)
        \/ CheckCached(r)
        \/ ReadCached(r)
        \/ YtDlpOk(r)
        \/ YtDlpFail(r)
        \/ FfmpegOpenOutput(r)
        \/ FfmpegExitOk(r)
        \/ FfmpegFail(r)
        \/ ReadOut(r)
        \/ ClientAbort(r)

(***************************************************************************)
(* The generate route: transcript normalisation                            *)
(***************************************************************************)

\* String.prototype.replace(/<\/?[^>]+>/g, ""): every "<", an optional "/",
\* one or more characters other than ">", and the ">" that follows, removed.
RECURSIVE stripTags(_)
stripTags(s) ==
    IF Len(s) = 0 THEN ""
    ELSE IF Ch(s, 1) = "<"
            /\ \E j \in 3..Len(s) : Ch(s, j) = ">" /\ \A m \in 2..(j - 1) : Ch(s, m) # ">"
         THEN LET j == CHOOSE j \in 3..Len(s) :
                          Ch(s, j) = ">" /\ \A m \in 2..(j - 1) : Ch(s, m) # ">"
              IN  stripTags(SubSeq(s, j + 1, Len(s)))
         ELSE Ch(s, 1) \o stripTags(SubSeq(s, 2, Len(s)))

\* String.prototype.replace(/\[.*?\]/g, ""): "[" up to the first "]" after it.
RECURSIVE stripBrackets(_)
stripBrackets(s) ==
    IF Len(s) = 0 THEN ""
    ELSE IF Ch(s, 1) = "[" /\ \E j \in 2..Len(s) : Ch(s, j) = "]"
         THEN LET j == CHOOSE j \in 2..Len(s) :
                          Ch(s, j) = "]" /\ \A m \in 2..(j - 1) : Ch(s, m) # "]"
              IN  stripBrackets(SubSeq(s, j + 1, Len(s)))
         ELSE Ch(s, 1) \o stripBrackets(SubSeq(s, 2, Len(s)))

\* String.prototype.replace(/\s+/g, " ")
RECURSIVE collapseWs(_)
collapseWs(s) ==
    IF Len(s) = 0 THEN ""
    ELSE IF Ch(s, 1) \in Whitespace
         THEN " " \o collapseWs(trimStart(s))
         ELSE Ch(s, 1) \o collapseWs(SubSeq(s, 2, Len(s)))

Digits == {"0", "1", "2", "3", "4", "5", "6", "7", "8", "9"}

\* s begins with a match of /<\d{2}:\d{2}:\d{2}\.\d{3}>/.
timingTagAt(s) ==
    /\ Len(s) >= 14
    /\ Ch(s, 1) = "<" /\ Ch(s, 4) = ":" /\ Ch(s, 7) = ":" /\ Ch(s, 10) = "." /\ Ch(s, 14) = ">"
    /\ \A i \in {2, 3, 5, 6, 8, 9, 11, 12, 13} : Ch(s, i) \in Digits

\* String.prototype.replace(/<\d{2}:\d{2}:\d{2}\.\d{3}>/g, "")
RECURSIVE stripTimingTags(_)
stripTimingTags(s) ==
    IF Len(s) = 0 THEN ""
    ELSE IF timingTagAt(s) THEN stripTimingTags(SubSeq(s, 15, Len(s)))
    ELSE Ch(s, 1) \o stripTimingTags(SubSeq(s, 2, Len(s)))

\* String.prototype.replace(/c{2,}/g, "") for a character c: runs of two or
\* more removed.
RECURSIVE stripRuns(_, _)
stripRuns(s, c) ==
    IF Len(s) = 0 THEN ""
    ELSE IF Len(s) >= 2 /\ Ch(s, 1) = c /\ Ch(s, 2) = c
         THEN LET after == CHOOSE j \in 3..(Len(s) + 1) :
                              /\ \A m \in 1..(j - 1) : Ch(s, m) = c
                              /\ (j = Len(s) + 1 \/ Ch(s, j) # c)
              IN  stripRuns(SubSeq(s, after, Len(s)), c)
         ELSE Ch(s, 1) \o stripRuns(SubSeq(s, 2, Len(s)), c)

\* cleanVTTText: the replacements in the code's order.  Texts are single
\* lines (no "\n"), so the replacement of line breaks has nothing to do.
cleanVTTText(text) ==
    trim(collapseWs(stripBrackets(
        replaceAll(replaceAll(replaceAll(replaceAll(replaceAll(replaceAll(replaceAll(replaceAll(
            stripRuns(stripRuns(stripTags(stripTimingTags(text)), ">"), "<"),
            "&gt;", ">"), "&lt;", "<"), "&amp;", "&"), "&quot;", "\""), "&#39;", "'"),
            "&apos;", "'"), "&#x27;", "'"), "&nbsp;", " "))))

\* parseVTT, first pass: the cue nodes with their cleaned text; a cue whose
\* cleaned text is empty or a single character is dropped.  node.data.start
\* and .end are milliseconds; the model keeps them so (the code divides by
\* 1000).
RECURSIVE collectCues(_, _, _)
collectCues(nodes, i, acc) ==
    IF i > Len(nodes) THEN acc
    ELSE LET cleanText == cleanVTTText(nodes[i].text) IN
         collectCues(nodes, i + 1,
             IF cleanText # "" /\ Len(cleanText) > 1
                THEN Append(acc, [start |-> nodes[i].start, end |-> nodes[i].end, text |-> cleanText])
                ELSE acc)

\* parseVTT, second pass: the number of words at the end of lastWords that
\* are the words at the start of currentWords (the largest such number).
overlapOf(lastWords, currentWords) ==
    LET m == Min(Len(lastWords), Len(currentWords))
        hits == {j \in 1..m :
                    toLowerCase(join(sliceLast(lastWords, j), " "))
                      = toLowerCase(join(slice(currentWords, 0, j), " "))}
    IN  IF hits = {} THEN 0 ELSE SetMax(hits)

\* A second pass without de-duplication: every cue keeps its whole text.
newTextWhole(cueText, lastText) == cueText

\* parseVTT, second pass: the new text of a cue, given the text of the cue
\* before it.
newTextOf(cueText, lastText) ==
    IF lastText # "" /\ startsWith(toLowerCase(cueText), toLowerCase(lastText))
       THEN trim(substringFrom(cueText, Len(lastText)))
    ELSE IF lastText # ""
       THEN LET currentWords == splitWs(cueText)
                overlapStart == overlapOf(splitWs(lastText), currentWords)
            IN  IF overlapStart > 0
                   THEN join(slice(currentWords, overlapStart, Len(currentWords)), " ")
                   ELSE cueText
    ELSE cueText

\* A second pass that compares a cue with the text last emitted, not with
\* the text of the cue before it.
RECURSIVE extractNewAfterEmitted(_, _, _, _)
extractNewAfterEmitted(cues, i, lastText, segments) ==
    IF i > Len(cues) THEN segments
    ELSE LET cue == cues[i]
             newText == newTextOf(cue.text, lastText)
         IN  IF newText # "" /\ Len(newText) > 1
                THEN extractNewAfterEmitted(cues, i + 1, newText,
                         Append(segments, [start |-> cue.start, end |-> cue.end, text |-> newText]))
                ELSE extractNewAfterEmitted(cues, i + 1, lastText, segments)

\* parseVTT, second pass: a segment per cue that brings new text.
RECURSIVE extractNew(_, _, _, _)
extractNew(cues, i, lastText, segments) ==
    IF i > Len(cues) THEN segments
    ELSE LET cue == cues[i]
             newText == newTextOf(cue.text, lastText)
         IN  extractNew(cues, i + 1, cue.text,
                 IF newText # "" /\ Len(newText) > 1
                    THEN Append(segments, [start |-> cue.start, end |-> cue.end, text |-> newText])
                    ELSE segments)

\* The gap below which the third pass merges (0.5 s) and the word count from
\* which it no longer does.
MergeGapMs == 500
MergeMaxWords == 8

\* A merge that takes the later segment's start and the earlier one's end:
\* what C6 rules out.
mergedSegmentSwapped(current, seg) ==
    [start |-> seg.start, end |-> current.end, text |-> current.text \o " " \o seg.text]

\* parseVTT, third pass: seg merged into the current segment
\* (currentSegment.end = seg.end; currentSegment.text += " " + seg.text).
mergedSegment(current, seg) ==
    [start |-> current.start, end |-> seg.end, text |-> current.text \o " " \o seg.text]

\* A third pass that merges nothing.
mergeNone(segments, i, current, merged) == segments

\* parseVTT, third pass: a segment is merged into the current one when it
\* starts less than 0.5 s after the current one's end and the current one has
\* fewer than 8 words.  current is <<>> (null) or <<segment>>.
RECURSIVE mergeShort(_, _, _, _)
mergeShort(segments, i, current, merged) ==
    IF i > Len(segments) THEN merged \o current
    ELSE LET seg == segments[i] IN
         IF current = <<>> THEN mergeShort(segments, i + 1, <<seg>>, merged)
         ELSE IF seg.start - current[1].end < MergeGapMs
                 /\ Len(splitWs(current[1].text)) < MergeMaxWords
              THEN mergeShort(segments, i + 1, <<mergedSegment(current[1], seg)>>, merged)
              ELSE mergeShort(segments, i + 1, <<seg>>, Append(merged, current[1]))

parseVTT(nodes) ==
    LET cues == collectCues(nodes, 1, <<>>) IN
    IF Len(cues) = 0 THEN <<>>
    ELSE mergeShort(extractNew(cues, 1, "", <<>>), 1, <<>>, <<>>)

\* generateSegmentsFromDuration
segmentLength == 15000

placeholderTexts == <<
    "This is an engaging moment from the video that captures attention.",
    "Key point being discussed here with important information.",
    "Interesting content that viewers would want to see.",
    "Valuable insight shared in this segment of the video.",
    "Compelling moment that makes for great short-form content.",
    "Highlight from the video with shareable content." >>

RECURSIVE segmentsFrom(_, _, _)
segmentsFrom(duration, i, segments) ==
    IF ~(i < duration) THEN segments
    ELSE segmentsFrom(duration, i + segmentLength,
             Append(segments,
                 [start |-> i,
                  end |-> Min(i + segmentLength, duration),
                  text |-> placeholderTexts[((i \div segmentLength) % Len(placeholderTexts)) + 1]]))

\* A synthesis that leaves out the last segment when it is shorter than the
\* others.
generateWholeSegments(duration) ==
    [k \in 1..(duration \div segmentLength) |->
        [start |-> (k - 1) * segmentLength, end |-> k * segmentLength,
         text |-> placeholderTexts[((k - 1) % Len(placeholderTexts)) + 1]]]

generateSegmentsFromDuration(duration) == segmentsFrom(duration, 0, <<>>)

(***************************************************************************)
(* The generate route: scoring, window search and selection                 *)
(***************************************************************************)

engagementWords == <<
    "amazing", "incredible", "important", "secret", "tip", "trick",
    "how to", "why", "best", "top", "must", "need", "should",
    "learn", "discover", "reveal", "truth", "fact", "actually",
    "surprising", "shocking", "crazy", "insane", "game changer" >>

\* scoreClip, "Engagement keywords": 10 for each word of the list that
\* lowerText.includes.
keywordScore(text) ==
    10 * Cardinality({word \in {toLowerCase(text)} \X (1..Len(engagementWords)) :
                         includes(word[1], engagementWords[word[2]])})

\* scoreClip, "Word count bonus (not too short, not too long)".
wordCountBonus(text) ==
    LET wordCount == Len(splitWs(text))
    IN  IF wordCount >= 50 /\ wordCount <= 150 THEN 15 ELSE 0

\* scoreClip.  Durations are in milliseconds, so the score is in thousandths
\* of a point: 1000 times the code's score.
scoreClip(text, duration) ==
    LET question == IF includes(text, "?") THEN 15 ELSE 0
        LongEnough(sentence) == Len(trim(sentence)) > 10
        sentences == filter(split(text, {".", "!", "?"}), LongEnough)
        idealDuration == 45000
        durationDiff == Abs(duration - idealDuration)
    IN  1000 * (keywordScore(text) + question + 5 * Len(sentences) + wordCountBonus(text))
          + Max(0, 20000 - durationDiff)

\* targetDuration = { min: 30, max: 60 }
targetDurationMin == 30000
targetDurationMax == 60000

\* "Max 5 shorts"
maxShorts == 5

\* A window test that forgets the lower bound.
upToMaxDuration(windowDuration) == windowDuration <= targetDurationMax

\* findBestClips: "Check if window is in target duration range".
inTargetDuration(windowDuration) ==
    windowDuration >= targetDurationMin /\ windowDuration <= targetDurationMax

\* findBestClips: the inner loop over j for a start index i: the windows it
\* pushes, in order.  Indices are the code's (0-based).
RECURSIVE expandWindow(_, _, _, _)
expandWindow(tr, i, j, windowText0) ==
    IF ~(j < Len(tr)) THEN <<>>
    ELSE LET windowText == windowText0 \o " " \o tr[j + 1].text
             windowEnd == tr[j + 1].end
             windowDuration == windowEnd - tr[i + 1].start
             pushed ==
                 IF inTargetDuration(windowDuration)
                    THEN << [start |-> tr[i + 1].start, end |-> windowEnd,
                             text |-> trim(windowText),
                             score |-> scoreClip(windowText, windowDuration),
                             startIdx |-> i, endIdx |-> j] >>
                    ELSE <<>>
         IN  IF windowDuration > targetDurationMax THEN pushed
             ELSE pushed \o expandWindow(tr, i, j + 1, windowText)

\* findBestClips: the outer loop over i, from start index i on.
RECURSIVE slideWindows(_, _)
slideWindows(tr, i) ==
    IF ~(i < Len(tr)) THEN <<>>
    ELSE expandWindow(tr, i, i, "") \o slideWindows(tr, i + 1)

\* An overlap test that looks at the window's start only.
startInsideSelected(window, selected) ==
    window.start >= selected.start /\ window.start < selected.end

\* An overlap test for closed intervals: windows that touch overlap too.
overlapsClosed(window, selected) ==
    window.start <= selected.end /\ selected.start <= window.end

\* findBestClips: "Check for overlap with already selected".
overlapsSelected(window, selected) ==
    \/ (window.start >= selected.start /\ window.start < selected.end)
    \/ (window.end > selected.start /\ window.end <= selected.end)
    \/ (window.start <= selected.start /\ window.end >= selected.end)

\* A walk that stops at the first window it has to turn down.
RECURSIVE pickUntilOverlap(_, _, _)
pickUntilOverlap(sorted, i, selected) ==
    IF i > Len(sorted) THEN selected
    ELSE LET window == sorted[i]
             overlaps == \E n \in 1..Len(selected) : overlapsSelected(window, selected[n])
         IN  IF overlaps THEN selected
             ELSE IF Len(selected) + 1 >= maxShorts THEN Append(selected, window)
             ELSE pickUntilOverlap(sorted, i + 1, Append(selected, window))

\* findBestClips: the walk over the sorted windows.
RECURSIVE pickWindows(_, _, _)
pickWindows(sorted, i, selected) ==
    IF i > Len(sorted) THEN selected
    ELSE LET window == sorted[i]
             overlaps == \E n \in 1..Len(selected) : overlapsSelected(window, selected[n])
         IN  IF ~overlaps
                THEN IF Len(selected) + 1 >= maxShorts THEN Append(selected, window)
                     ELSE pickWindows(sorted, i + 1, Append(selected, window))
                ELSE pickWindows(sorted, i + 1, selected)

\* scoredWindows.sort((a, b) => b.score - a.score)
NegScore(w) == -w.score
\* A sort by score that puts the later of two equally scored windows first.
ScoreOf(w) == w.score
sortByScoreTiesReversed(windows) ==
    [n \in 1..Len(windows) |-> sortByKey(windows, ScoreOf)[Len(windows) + 1 - n]]

sortByScore(windows) == sortByKey(windows, NegScore)

\* selectedWindows.sort((a, b) => a.start - b.start)
StartOf(w) == w.start
sortByStart(windows) == sortByKey(windows, StartOf)

\* Math.ceil of a time in seconds, for a time held in milliseconds.
ceilSeconds(ms) == (ms + 999) \div 1000

\* Math.floor of a time in seconds, for a time held in milliseconds.
floorSeconds(ms) == ms \div 1000

\* findBestClips: the Short of the index-th selected window (index 0-based).
\* title and thumbnail repeat videoInfo and are left out.
makeShort(tr, window, index) ==
    [id |-> index,
     startTime |-> floorSeconds(window.start),
     endTime |-> floorSeconds(window.end),
     transcript |-> substringTo(window.text, 300) \o (IF Len(window.text) > 300 THEN "..." ELSE ""),
     segments |-> [n \in 1..(window.endIdx - window.startIdx + 1) |->
                      [start |-> tr[window.startIdx + n].start - window.start,
                       end |-> tr[window.startIdx + n].end - window.start,
                       text |-> tr[window.startIdx + n].text]],
     score |-> window.score]

(***************************************************************************)
(* The generate route: the POST handler                                     *)
(***************************************************************************)

\* Bounds of the generate model: the cues of a caption track, and the video
\* durations (in steps of DurationStep) yt-dlp reports.
MaxCues == 2
MaxDurationSteps == 14
DurationStep == 22500

\* The raw cue texts a caption track is drawn from: progressive captions
\* with markup, a question with a keyword, an eight-word cue, an annotation.
NodeTexts == {
    "hello world",
    "<c>hello</c>  world today",
    "World today is amazing?",
    "one two three four five six seven eight",
    "[music]" }

\* The timings a cue is drawn from: <<start - previous cue's start, end - start>>,
\* in ms.  The first cue starts at 0.  A cue of 29 s that starts 1.8 s into
\* one of 31 s ends before it.
CueTimings == { <<1800, 2200>>, <<2500, 2000>>, <<1800, 31000>>, <<2500, 0>>, <<1800, 29000>> }

DurationsMs == {k * DurationStep : k \in 0..MaxDurationSteps}

\* The caption tracks of exactly n cues, as parseSync delivers them: cue
\* nodes ordered by start.
RECURSIVE TracksOfLen(_)
TracksOfLen(n) ==
    IF n = 0 THEN {<<>>}
    ELSE {Append(t, [start |-> (IF Len(t) = 0 THEN 0 ELSE t[Len(t)].start + timing[1]),
                     end |-> (IF Len(t) = 0 THEN 0 ELSE t[Len(t)].start + timing[1]) + timing[2],
                     text |-> text]) :
            t \in TracksOfLen(n - 1), text \in NodeTexts, timing \in CueTimings}

CaptionTracks == UNION {TracksOfLen(n) : n \in 0..MaxCues}

\* Bounds of the talks: the cues of a talk and how often its first cue says
\* the keyword "why".
MaxTalkCues == 8
MaxRepeats == 2

\* n times the word, single spaced.
RECURSIVE repeatWord(_, _)
repeatWord(word, n) ==
    IF n = 0 THEN "" ELSE IF n = 1 THEN word ELSE word \o " " \o repeatWord(word, n - 1)

\* The text of a talk's first cue: wordCount words, the first repeats of
\* them "Why".
talkText(repeats, wordCount) ==
    IF repeats = 0 THEN repeatWord("a", wordCount)
    ELSE repeatWord("Why", repeats) \o " " \o repeatWord("a", wordCount - repeats)

\* The word counts of a talk's first cue, and the ms each of its cues lasts.
TalkWordCounts == {9, 10, 11}
TalkCueLengths == {7500, 10000}

\* The captions of a talk of n cues, without gaps: after the first cue, cues
\* of twenty words that share no word with the cue before them.
RECURSIVE TalksOfLen(_)
TalksOfLen(n) ==
    IF n = 1
    THEN {<< [start |-> 0, end |-> length, text |-> talkText(repeats, wordCount)] >> :
            length \in TalkCueLengths, repeats \in 0..MaxRepeats, wordCount \in TalkWordCounts}
    ELSE {Append(t, [start |-> t[Len(t)].end, end |-> t[Len(t)].end + (t[1].end - t[1].start),
                     text |-> repeatWord(IF n % 2 = 0 THEN "b" ELSE "c", 20)]) :
            t \in TalksOfLen(n - 1)}

TalkTracks == UNION {TalksOfLen(n) : n \in 1..MaxTalkCues}

\* Bound of the overlapping captions: the cues of such a track.
MaxOverlapCues == 3

\* The texts an overlapping cue is drawn from: captions that repeat the end
\* of the one before them, in another case or with one new letter, and one
\* of eight words.
OverlapTexts == {
    "Hello World",
    "hello world today",
    "world today a",
    "today a b c",
    "one two three four five six seven eight" }

\* The ms the first cue of such a track is shown: 31 s, or more than a minute.
FirstCueLengths == {31000, 61000}

\* The caption tracks of n cues that overlap: every cue after the first
\* starts 1.8 s after the one before it and is shown for 31 s, so a cue
\* that follows a first cue of 61 s ends before it.
RECURSIVE OverlapsOfLen(_)
OverlapsOfLen(n) ==
    IF n = 1
    THEN {<< [start |-> 0, end |-> length, text |-> text] >> :
            length \in FirstCueLengths, text \in OverlapTexts}
    ELSE {Append(t, [start |-> t[Len(t)].start + 1800, end |-> t[Len(t)].start + 32800,
                     text |-> text]) :
            t \in OverlapsOfLen(n - 1), text \in OverlapTexts}

OverlapTracks == UNION {OverlapsOfLen(n) : n \in 1..MaxOverlapCues}

\* A video lasts as long as its captions, rounded up to the next duration
\* modelled; one with an empty caption track has any duration.
RunsTo(track, duration) ==
    IF Len(track) = 0 THEN TRUE
    ELSE LET lastEnd == SetMax({track[n].end : n \in 1..Len(track)})
         IN  duration = DurationStep * ((lastEnd + DurationStep - 1) \div DurationStep)

InitGen ==
    /\ gpc = "info"
    /\ vttNodes = <<>>
    /\ vttSegments = <<>>
    /\ videoInfo = [duration |-> 0]
    /\ transcript = <<>>
    /\ scoredWindows = <<>>
    /\ selectedWindows = <<>>
    /\ shorts = <<>>

\* POST: "Step 1: Get video info" (info.duration || 0).
GetVideoInfo ==
    /\ gpc = "info"
    /\ \E d \in DurationsMs : videoInfo' = [duration |-> d]
    /\ gpc' = "subs"
    /\ UNCHANGED <<cropVars, dlVars, pvVars, vttNodes, vttSegments, transcript, scoredWindows, selectedWindows, shorts>>

\* POST: getVideoInfo returns null (yt-dlp failed): 500.
GetVideoInfoFail ==
    /\ gpc = "info"
    /\ gpc' = "failed"
    /\ UNCHANGED <<cropVars, dlVars, pvVars, vttNodes, vttSegments, videoInfo, transcript, scoredWindows, selectedWindows, shorts>>

\* getTranscript: yt-dlp wrote subs.en.vtt, one of the given caption tracks;
\* the file is read and parsed.  Its segments are the transcript if there are
\* any; otherwise on to the fallback.
GetTranscriptOf(tracks) ==
    /\ gpc = "subs"
    /\ \E track \in tracks :
          /\ RunsTo(track, videoInfo.duration)
          /\ vttNodes' = track
          /\ vttSegments' = parseVTT(track)
          /\ IF Len(vttSegments') > 0
                THEN transcript' = vttSegments' /\ gpc' = "clips"
                ELSE transcript' = transcript /\ gpc' = "fallback"
    /\ UNCHANGED <<cropVars, dlVars, pvVars, videoInfo, scoredWindows, selectedWindows, shorts>>

\* The video has one of the short caption tracks.
GetTranscriptSubs == GetTranscriptOf(CaptionTracks)

\* The video has the captions of a talk: up to MaxTalkCues cues of 30 s and more.
GetTranscriptTalk == GetTranscriptOf(TalkTracks)

\* The video has captions whose cues overlap.
GetTranscriptOverlap == GetTranscriptOf(OverlapTracks)

\* getTranscript: yt-dlp throws or writes no file ("No subtitles available,
\* using fallback").
GetTranscriptNoSubs ==
    /\ gpc = "subs"
    /\ gpc' = "fallback"
    /\ UNCHANGED <<cropVars, dlVars, pvVars, vttNodes, vttSegments, videoInfo, transcript, scoredWindows, selectedWindows, shorts>>

\* getTranscript: the outer catch (mkdir throws): generateSegmentsFromDuration(300).
GetTranscriptError ==
    /\ gpc = "subs"
    /\ transcript' = generateSegmentsFromDuration(300000)
    /\ gpc' = "clips"
    /\ UNCHANGED <<cropVars, dlVars, pvVars, vttNodes, vttSegments, videoInfo, scoredWindows, selectedWindows, shorts>>

\* getTranscript: "Fallback: Generate segments based on video duration"; the
\* second getVideoInfo reports what the first did.
FallbackFromDuration ==
    /\ gpc = "fallback"
    /\ transcript' = generateSegmentsFromDuration(videoInfo.duration)
    /\ gpc' = "clips"
    /\ UNCHANGED <<cropVars, dlVars, pvVars, vttNodes, vttSegments, videoInfo, scoredWindows, selectedWindows, shorts>>

\* getTranscript: the second getVideoInfo returns null: "Default 5 min".
FallbackDefault ==
    /\ gpc = "fallback"
    /\ transcript' = generateSegmentsFromDuration(300000)
    /\ gpc' = "clips"
    /\ UNCHANGED <<cropVars, dlVars, pvVars, vttNodes, vttSegments, videoInfo, scoredWindows, selectedWindows, shorts>>

\* POST: "Step 3: Analyze transcript and find best clip points".
FindBestClips ==
    /\ gpc = "clips"
    /\ scoredWindows' = sortByScore(slideWindows(transcript, 0))
    /\ selectedWindows' = sortByStart(pickWindows(scoredWindows', 1, <<>>))
    /\ shorts' = [n \in 1..Len(selectedWindows') |->
                    makeShort(transcript, selectedWindows'[n], n - 1)]
    /\ gpc' = "done"
    /\ UNCHANGED <<cropVars, dlVars, pvVars, vttNodes, vttSegments, videoInfo, transcript>>

NextGen ==
    \/ GetVideoInfo
    \/ GetVideoInfoFail
    \/ GetTranscriptSubs
    \/ GetTranscriptNoSubs
    \/ GetTranscriptError
    \/ FallbackFromDuration
    \/ FallbackDefault
    \/ FindBestClips

(***************************************************************************)
(* The download route: captions (chunkSegments, generateSrt)                *)
(***************************************************************************)

\* A time that need not be a whole number of milliseconds: <<n, d>> is n/d ms,
\* d > 0.  The code computes these as doubles; here they are exact.
Rat(n, d) == <<n, d>>
RatEq(a, b) == a[1] * b[2] = b[1] * a[2]
RatLess(a, b) == a[1] * b[2] < b[1] * a[2]
RatMin(a, b) == IF RatLess(b, a) THEN b ELSE a
RatMax(a, b) == IF RatLess(a, b) THEN b ELSE a
RatSub(a, b) == Rat(a[1] * b[2] - b[1] * a[2], a[2] * b[2])

\* String.prototype.padStart(length, "0")
RECURSIVE padStart(_, _)
padStart(s, length) == IF Len(s) >= length THEN s ELSE padStart("0" \o s, length)

\* toSrtTime, of a time t >= 0: HH:MM:SS,mmm with Math.floor for the hours,
\* minutes and seconds and Math.round (halves go up) for the milliseconds.
toSrtTime(t) ==
    LET n == t[1]
        d == t[2]
        hours == n \div (d * 3600000)
        minutes == (n % (d * 3600000)) \div (d * 60000)
        secs == (n % (d * 60000)) \div (d * 1000)
        ms == (2 * (n % (d * 1000)) + d) \div (2 * d)
    IN  padStart(ToString(hours), 2) \o ":" \o padStart(ToString(minutes), 2) \o ":"
          \o padStart(ToString(secs), 2) \o "," \o padStart(ToString(ms), 3)

\* decodeHtmlEntities: the nine replacements, in the code's order.
decodeHtmlEntities(text) ==
    replaceAll(replaceAll(replaceAll(replaceAll(replaceAll(replaceAll(replaceAll(
        replaceAll(replaceAll(text, "&gt;", ">"), "&lt;", "<"), "&amp;", "&"),
        "&quot;", "\""), "&#39;", "'"), "&apos;", "'"), "&#x27;", "'"), "&#x2F;", "/"),
        "&nbsp;", " ")

\* A chunk that holds one word fewer than it should.
chunkWordsShort(words, i, maxWords) == slice(words, i, i + maxWords - 1)

\* chunkSegments: words.slice(i, i + maxWords)
chunkWordsAt(words, i, maxWords) == slice(words, i, i + maxWords)

\* A chunk time that forgets where the segment starts.
timeOfWordFromZero(seg, k, wordCount) == Rat(k * (seg.end - seg.start), wordCount)

\* chunkSegments: seg.start + k * timePerWord, timePerWord = segDuration / words.length
timeOfWord(seg, k, wordCount) ==
    Rat(seg.start * wordCount + k * (seg.end - seg.start), wordCount)

\* chunkSegments: "Split into chunks", the chunk the loop pushes at word
\* index i.
chunkAt(seg, words, maxWords, i) ==
    LET chunkWords == chunkWordsAt(words, i, maxWords)
        chunkStart == timeOfWord(seg, i, Len(words))
        chunkEnd == RatMin(Rat(seg.end, 1), timeOfWord(seg, i + Len(chunkWords), Len(words)))
    IN  [start |-> chunkStart, end |-> chunkEnd, text |-> join(chunkWords, " ")]

\* chunkSegments: "Split into chunks", the loop from word index i on, for
\* maxWords > 0.
RECURSIVE splitIntoChunks(_, _, _, _)
splitIntoChunks(seg, words, maxWords, i) ==
    IF ~(i < Len(words)) THEN <<>>
    ELSE << chunkAt(seg, words, maxWords, i) >>
           \o splitIntoChunks(seg, words, maxWords, i + maxWords)

NonEmpty(w) == Len(w) > 0

\* chunkSegments, the body of its loop: the captions of one segment.
chunksOfSegment(seg, maxWords) ==
    LET cleanText == trim(decodeHtmlEntities(seg.text))
        words == filter(splitWs(cleanText), NonEmpty)
    IN  IF Len(cleanText) = 0 THEN <<>>
        ELSE IF Len(words) <= maxWords
             THEN << [start |-> Rat(seg.start, 1), end |-> Rat(seg.end, 1), text |-> cleanText] >>
             ELSE splitIntoChunks(seg, words, maxWords, 0)

\* chunkSegments: the words of a segment.
wordsOfSegment(seg) == filter(splitWs(trim(decodeHtmlEntities(seg.text))), NonEmpty)

\* chunkSegments: the segments that reach "Split into chunks" with a
\* maxWords below 1, as indices.  The loop "for (i = 0; i < words.length;
\* i += maxWords)" never ends for them: i starts below words.length and
\* does not grow.
loopsForeverAt(segs, maxWords) ==
    {n \in 1..Len(segs) :
        /\ maxWords < 1
        /\ Len(trim(decodeHtmlEntities(segs[n].text))) > 0
        /\ ~(Len(wordsOfSegment(segs[n])) <= maxWords)}

\* chunkSegments(segments, maxWords, clipStart); clipStart is not used.
RECURSIVE chunkSegments(_, _, _)
chunkSegments(segs, maxWords, clipStart) ==
    IF Len(segs) = 0 THEN <<>>
    ELSE chunksOfSegment(Head(segs), maxWords) \o chunkSegments(Tail(segs), maxWords, clipStart)

\* generateSrt, the entries it joins with "\n": chunk i (0-based) becomes
\* entry i + 1 unless it lasts under 0.1 s after the shift by clipStart or
\* its text is blank.
generateSrt(segs, clipStart, maxWords) ==
    LET chunks == chunkSegments(segs, maxWords, clipStart)
        startOf(i) == RatMax(Rat(0, 1), RatSub(chunks[i].start, Rat(clipStart, 1)))
        endOf(i) == RatMax(Rat(0, 1), RatSub(chunks[i].end, Rat(clipStart, 1)))
        kept == {i \in 1..Len(chunks) :
                    ~(RatLess(RatSub(endOf(i), startOf(i)), Rat(100, 1))
                        \/ Len(trim(chunks[i].text)) = 0)}
        entry == [i \in 1..Len(chunks) |->
                    [index |-> i, start |-> toSrtTime(startOf(i)),
                     end |-> toSrtTime(endOf(i)), text |-> chunks[i].text]]
    IN  SelectSeq(entry, LAMBDA e : e.index \in kept)

\* String.prototype.slice(from, to) for 0 <= from <= to, 0-based, to exclusive.
sliceString(s, from, to) == SubSeq(s, Min(from, Len(s)) + 1, Min(to, Len(s)))

\* hexToAssBgr: "Convert hex color to ASS format (BGR)".
hexToAssBgr(hex) ==
    LET r == sliceString(hex, 1, 3)
        g == sliceString(hex, 3, 5)
        b == sliceString(hex, 5, 7)
    IN  "&H00" \o b \o g \o r \o "&"

(***************************************************************************)
(* The download route: the GET handler                                      *)
(***************************************************************************)

\* Bounds of the download model: the segments of a request and the largest
\* captionStyle.maxWords.
MaxSegments == 2
MaxMaxWords == 10

\* The texts a request's segments are drawn from: seven words; eleven words
\* with entities, a leading space and a double space; blank.
SegmentTexts == {
    "one two three four five six seven",
    " Tom &amp; Jerry  ran&nbsp;off to a far side of town",
    "  " }

\* The <<start, end>> a request's segments are drawn from, ms.
SegmentTimes == { <<10000, 15000>>, <<0, 1000>> }

\* The <<start, end>> parameters a request is drawn from, ms: a clip that
\* begins with the video and one that begins 10 s into it.
ClipWindows == { <<0, 12000>>, <<10000, 15000>> }

\* The captionStyle.fontSize a request is drawn from; 0 is a style without it.
FontSizes == {0, 8, 60}

\* The requests with a full style: the captionStyle.color and
\* .backgroundColor ("" is a style without it; the edit page's default
\* background is "transparent"), the maxWords, and the <<start, end>> of the
\* one segment, ms.
TextColours == {"", "#FFFFFF", "#FF8000"}
BackgroundColours == {"", "#102030", "transparent"}
StyledMaxWords == {-1, 0, 1}
StyledTimes == { <<0, 7000>>, <<0, 6999>> }

RECURSIVE SegmentsOfLen(_)
SegmentsOfLen(n) ==
    IF n = 0 THEN {<<>>}
    ELSE {Append(segs, [start |-> time[1], end |-> time[2], text |-> text]) :
            segs \in SegmentsOfLen(n - 1), text \in SegmentTexts, time \in SegmentTimes}

InitDl ==
    /\ dpc = "idle"
    /\ dlSegments = <<>>
    /\ dlStart = 0
    /\ dlEnd = 60000
    /\ captionStyle = [maxWords |-> 0, fontSize |-> 0, color |-> "", backgroundColor |-> ""]
    /\ chunked = <<>>
    /\ srtEntries = <<>>
    /\ forceStyle = [FontSize |-> 0, PrimaryColour |-> "", BackColour |-> ""]
    /\ dlStatus = 0

\* GET without url: 400.
DlNoUrl ==
    /\ dpc = "idle"
    /\ dpc' = "done"
    /\ dlStatus' = 400
    /\ UNCHANGED <<cropVars, genVars, pvVars, dlSegments, dlStart, dlEnd, captionStyle, chunked, srtEntries, forceStyle>>

\* GET: the parameters are read and parsed; the style names no colours.
DlArrive ==
    /\ dpc = "idle"
    /\ \E n \in 0..MaxSegments :
          \E segs \in SegmentsOfLen(n), window \in ClipWindows,
                maxWords \in 0..MaxMaxWords, fontSize \in FontSizes :
             /\ dlSegments' = segs
             /\ dlStart' = window[1]
             /\ dlEnd' = window[2]
             /\ captionStyle' = [maxWords |-> maxWords, fontSize |-> fontSize,
                                  color |-> "", backgroundColor |-> ""]
    /\ dpc' = "ytdlp"
    /\ UNCHANGED <<cropVars, genVars, pvVars, chunked, srtEntries, forceStyle, dlStatus>>

\* GET: the parameters are read and parsed; the request has one segment of
\* seven words and a style with colours.
DlArriveStyled ==
    /\ dpc = "idle"
    /\ \E time \in StyledTimes, maxWords \in StyledMaxWords,
          color \in TextColours, backgroundColor \in BackgroundColours :
          /\ dlSegments' = << [start |-> time[1], end |-> time[2],
                               text |-> "one two three four five six seven"] >>
          /\ captionStyle' = [maxWords |-> maxWords, fontSize |-> 0,
                              color |-> color, backgroundColor |-> backgroundColor]
    /\ dlStart' = 0
    /\ dlEnd' = 60000
    /\ dpc' = "ytdlp"
    /\ UNCHANGED <<cropVars, genVars, pvVars, chunked, srtEntries, forceStyle, dlStatus>>

\* "Step 1: Download the segment using yt-dlp": source.mp4 is there.
DlDownloaded ==
    /\ dpc = "ytdlp"
    /\ dpc' = "srt"
    /\ UNCHANGED <<cropVars, genVars, pvVars, dlSegments, dlStart, dlEnd, captionStyle, chunked, srtEntries, forceStyle, dlStatus>>

\* yt-dlp throws or leaves no file: the catch block answers 500.
DlDownloadFail ==
    /\ dpc = "ytdlp"
    /\ dpc' = "done"
    /\ dlStatus' = 500
    /\ UNCHANGED <<cropVars, genVars, pvVars, dlSegments, dlStart, dlEnd, captionStyle, chunked, srtEntries, forceStyle>>

\* const maxWords = captionStyle?.maxWords || 5
maxWordsOf(style) == IF style.maxWords = 0 THEN 5 ELSE style.maxWords

\* const fontSize = captionStyle?.fontSize || 24
fontSizeOf(style) == IF style.fontSize = 0 THEN 24 ELSE style.fontSize

\* const fontColor = captionStyle?.color || "#FFFFFF"
fontColorOf(style) == IF style.color = "" THEN "#FFFFFF" ELSE style.color

\* const bgColor = captionStyle?.backgroundColor || "#000000"
bgColorOf(style) == IF style.backgroundColor = "" THEN "#000000" ELSE style.backgroundColor

\* Bound of the chunk loop: the chunks a loop that never ends is followed for.
MaxLoopChunks == 3

\* "Step 2: Generate SRT file if segments provided", and "Build subtitle
\* filter with styling".  With a maxWords for which chunkSegments' loop has
\* no end, the handler enters that loop at the first segment with words
\* (segments before it are blank and give no chunk) and stays in it.
DlGenerateSrt ==
    /\ dpc = "srt"
    /\ Len(dlSegments) > 0 => loopsForeverAt(dlSegments, maxWordsOf(captionStyle)) = {}
    /\ IF Len(dlSegments) > 0
          THEN /\ chunked' = chunkSegments(dlSegments, maxWordsOf(captionStyle), dlStart)
               /\ srtEntries' = generateSrt(dlSegments, dlStart, maxWordsOf(captionStyle))
               /\ forceStyle' = [FontSize |-> fontSizeOf(captionStyle),
                                 PrimaryColour |-> hexToAssBgr(fontColorOf(captionStyle)),
                                 BackColour |-> hexToAssBgr(bgColorOf(captionStyle))]
          ELSE UNCHANGED <<chunked, srtEntries, forceStyle>>
    /\ dpc' = "ffmpeg"
    /\ UNCHANGED <<cropVars, genVars, pvVars, dlSegments, dlStart, dlEnd, captionStyle, dlStatus>>

\* generateSrt is called with a maxWords for which chunkSegments' loop has
\* no end: the loop is entered.
DlEnterChunkLoop ==
    /\ dpc = "srt"
    /\ Len(dlSegments) > 0
    /\ loopsForeverAt(dlSegments, maxWordsOf(captionStyle)) # {}
    /\ chunked' = <<>>
    /\ dpc' = "chunking"
    /\ UNCHANGED <<cropVars, genVars, pvVars, dlSegments, dlStart, dlEnd, captionStyle, srtEntries, forceStyle, dlStatus>>

\* chunkSegments, one round of the loop that has no end: the chunk at
\* i = rounds so far * maxWords is pushed, and i += maxWords.  The model
\* follows it for MaxLoopChunks rounds.
DlChunkStep ==
    /\ dpc = "chunking"
    /\ Len(chunked) < MaxLoopChunks
    /\ \E n \in loopsForeverAt(dlSegments, maxWordsOf(captionStyle)) :
          /\ \A m \in loopsForeverAt(dlSegments, maxWordsOf(captionStyle)) : n <= m
          /\ chunked' = Append(chunked,
                 chunkAt(dlSegments[n], wordsOfSegment(dlSegments[n]), maxWordsOf(captionStyle),
                         Len(chunked) * maxWordsOf(captionStyle)))
    /\ UNCHANGED <<cropVars, genVars, pvVars, dpc, dlSegments, dlStart, dlEnd, captionStyle, srtEntries, forceStyle, dlStatus>>

\* "Step 3: Use FFmpeg to crop to 9:16 and burn subtitles": 200 with the file.
DlFfmpegOk ==
    /\ dpc = "ffmpeg"
    /\ dpc' = "done"
    /\ dlStatus' = 200
    /\ UNCHANGED <<cropVars, genVars, pvVars, dlSegments, dlStart, dlEnd, captionStyle, chunked, srtEntries, forceStyle>>

\* ffmpeg throws or leaves no output: 500.
DlFfmpegFail ==
    /\ dpc = "ffmpeg"
    /\ dpc' = "done"
    /\ dlStatus' = 500
    /\ UNCHANGED <<cropVars, genVars, pvVars, dlSegments, dlStart, dlEnd, captionStyle, chunked, srtEntries, forceStyle>>

NextDl ==
    \/ DlNoUrl
    \/ DlArrive
    \/ DlDownloaded
    \/ DlDownloadFail
    \/ DlGenerateSrt
    \/ DlFfmpegOk
    \/ DlFfmpegFail

(***************************************************************************)
(* The edit page: the caption preview (SyncedCaptions, getChunkedCaption)   *)
(***************************************************************************)

\* CaptionStyleEditor: the range input of "Words per caption".
MaxWordsMin == 2
MaxWordsMax == 10

\* defaultCaptionStyle.maxWords
DefaultMaxWords == 5

\* A first word that is the word under the playhead, not the first of its chunk.
startWordUnaligned(seg, time, wordCount, maxWords) ==
    ((time[1] - seg.start * time[2]) * wordCount) \div (time[2] * (seg.end - seg.start))

\* getChunkedCaption, "Calculate which chunk we're in based on time": the
\* index of the chunk's first word, for seg.start <= time < seg.end.
startWordOf(seg, time, wordCount, maxWords) ==
    LET wordIndex == ((time[1] - seg.start * time[2]) * wordCount)
                        \div (time[2] * (seg.end - seg.start))
        chunkIndex == wordIndex \div maxWords
    IN  chunkIndex * maxWords

\* getChunkedCaption from "if (words.length === 0)" on, given its cleanText
\* and words.
captionOfWords(seg, time, maxWords, cleanText, words) ==
    IF Len(words) = 0 THEN <<>>
    ELSE IF Len(words) <= maxWords THEN <<cleanText>>
    ELSE LET startWord == startWordOf(seg, time, Len(words), maxWords)
         IN  << join(slice(words, startWord, startWord + maxWords), " ") >>

\* getChunkedCaption from "if (!cleanText)" on, given its cleanText.
captionOfClean(seg, time, maxWords, cleanText) ==
    IF Len(cleanText) = 0 THEN <<>>
    ELSE CHOOSE caption \in {captionOfWords(seg, time, maxWords, cleanText, words) :
                                words \in {filter(splitWs(cleanText), NonEmpty)}} : TRUE

\* getChunkedCaption(segment, currentTime, maxWords): <<>> for null, <<text>>
\* for a text.
getChunkedCaption(seg, time, maxWords) ==
    CHOOSE caption \in {captionOfClean(seg, time, maxWords, cleanText) :
                            cleanText \in {trim(decodeHtmlEntities(seg.text))}} : TRUE

\* SyncedCaptions: segments.find(seg => currentTime >= seg.start &&
\* currentTime < seg.end), <<>> when there is none.
findSegment(segs, time) ==
    LET at == {i \in 1..Len(segs) :
                  /\ ~RatLess(time, Rat(segs[i].start, 1))
                  /\ RatLess(time, Rat(segs[i].end, 1))}
    IN  IF at = {} THEN <<>>
        ELSE << segs[CHOOSE i \in at : \A j \in at : i <= j] >>

\* SyncedCaptions: captionText of the segment found.
captionOf(found, time, style) ==
    IF Len(found) = 0 THEN <<>> ELSE getChunkedCaption(found[1], time, style.maxWords)

\* Bounds of the preview model: the segments of the clip and the playhead
\* positions on the grid of 2.5 s.
MaxPreviewSegments == 1
MaxTimeSteps == 6

\* The playhead positions tried: the grid and, for each segment, the
\* times at which one of its words begins.
PreviewTimes(segs) ==
    {Rat(k * 2500, 1) : k \in 0..MaxTimeSteps}
      \cup UNION { LET wordCount == Len(filter(splitWs(trim(decodeHtmlEntities(segs[i].text))), NonEmpty))
                   IN  {timeOfWord(segs[i], k, wordCount) : k \in 1..(wordCount - 1)}
                   : i \in 1..Len(segs) }

InitPv ==
    /\ pvpc = "mount"
    /\ pvSegments = <<>>
    /\ pvStyle = [maxWords |-> DefaultMaxWords]
    /\ currentTime = Rat(0, 1)
    /\ currentSegment = <<>>
    /\ captionText = <<>>

\* "Load segments from sessionStorage": setSegments, and the captions render.
PvLoadSegments ==
    /\ pvpc = "mount"
    /\ \E n \in 0..MaxPreviewSegments : \E segs \in SegmentsOfLen(n) : pvSegments' = segs
    /\ currentSegment' = findSegment(pvSegments', currentTime)
    /\ captionText' = captionOf(currentSegment', currentTime, pvStyle)
    /\ pvpc' = "ready"
    /\ UNCHANGED <<cropVars, genVars, dlVars, pvStyle, currentTime>>

\* handleTimeUpdate: setCurrentTime(Math.max(0, relativeTime)), and the
\* captions render.
PvTimeUpdate ==
    /\ pvpc = "ready"
    /\ \E time \in PreviewTimes(pvSegments) : currentTime' = time
    /\ currentSegment' = findSegment(pvSegments, currentTime')
    /\ captionText' = captionOf(currentSegment', currentTime', pvStyle)
    /\ UNCHANGED <<cropVars, genVars, dlVars, pvpc, pvSegments, pvStyle>>

\* CaptionStyleEditor, "Words per caption": update({ maxWords }), and the
\* captions render.
PvUpdateMaxWords ==
    /\ pvpc = "ready"
    /\ \E maxWords \in MaxWordsMin..MaxWordsMax : pvStyle' = [pvStyle EXCEPT !.maxWords = maxWords]
    /\ captionText' = captionOf(currentSegment, currentTime, pvStyle')
    /\ UNCHANGED <<cropVars, genVars, dlVars, pvpc, pvSegments, currentTime, currentSegment>>

NextPv ==
    \/ PvLoadSegments
    \/ PvTimeUpdate
    \/ PvUpdateMaxWords

(***************************************************************************)
(* Specifications                                                          *)
(***************************************************************************)

\* The generate route: one POST over any modelled caption track or duration.
Init == InitGen /\ InitCrop /\ InitDl /\ InitPv
Next == NextGen
Spec == Init /\ [][Next]_vars

\* The crop route: NReq concurrent GET requests over the shared cache.
SpecCrop == Init /\ [][NextCrop]_vars

\* The generate route: one POST for a video with the captions of a talk or
\* with captions whose cues overlap.
NextTalk ==
    \/ GetVideoInfo
    \/ GetTranscriptTalk
    \/ GetTranscriptOverlap
    \/ FindBestClips
SpecTalk == Init /\ [][NextTalk]_vars

\* The download route: one GET over any modelled segments and caption style.
SpecDownload == Init /\ [][NextDl]_vars

\* The download route: one GET with a style that names colours.
NextStyled ==
    \/ DlNoUrl
    \/ DlArriveStyled
    \/ DlDownloaded
    \/ DlDownloadFail
    \/ DlGenerateSrt
    \/ DlEnterChunkLoop
    \/ DlChunkStep
    \/ DlFfmpegOk
    \/ DlFfmpegFail
SpecStyled == Init /\ [][NextStyled]_vars

\* The edit page: the caption preview over any modelled segments, playhead
\* position and words-per-caption setting.
SpecPreview == Init /\ [][NextPv]_vars

(***************************************************************************)
(* The clip cache (C2, C3, C4)                                              *)
(***************************************************************************)

\* Requests whose render (the ffmpeg crop) is in flight for key k.
Rendering(k) == {r \in Reqs : pc[r] \in {"ffmpeg", "encoding"} /\ req[r].key = k}

\* C2: on a cache miss exactly one render is started per key: no two renders
\* for the same key are ever in flight together.
C2_OneRenderPerKey == \A k \in Keys : Cardinality(Rendering(k)) <= 1

\* C3: writers publish atomically: a reader answered with X-Cache: HIT
\* received the complete artifact.
C3_HitIsComplete ==
    \A r \in Reqs : resp[r].cache = "HIT" => resp[r].body = "complete"

\* C4: a render that failed part-way does not corrupt the cache: no HIT
\* serves the remains an aborted render left behind.
C4_NoAbortedRemainsServed ==
    \A r \in Reqs : resp[r].cache = "HIT" => resp[r].body # "aborted"

(***************************************************************************)
(* findBestClips (C1, C8)                                                   *)
(***************************************************************************)

\* Two intervals intersect when they share more than a point.
Intersect(aStart, aEnd, bStart, bEnd) == aStart < bEnd /\ bStart < aEnd

\* C1: whatever the transcript (parsed captions or the synthetic fallback),
\* findBestClips emits at most 5 shorts, no two of the chosen windows (and no
\* two of the emitted [startTime, endTime]) intersect, and the list is in
\* ascending order of start.
C1_AtMostFiveDisjointSorted ==
    /\ Len(shorts) <= 5
    /\ Len(shorts) = Len(selectedWindows)
    /\ \A m, n \in 1..Len(shorts) :
          m < n =>
             /\ ~Intersect(selectedWindows[m].start, selectedWindows[m].end,
                           selectedWindows[n].start, selectedWindows[n].end)
             /\ ~Intersect(shorts[m].startTime, shorts[m].endTime,
                           shorts[n].startTime, shorts[n].endTime)
             /\ selectedWindows[m].start <= selectedWindows[n].start
             /\ shorts[m].startTime <= shorts[n].startTime

\* C1, witness: five shorts were emitted and candidate windows were turned
\* down, among them one that intersects a chosen window.
C1_FiveChosenOthersRejected ==
    /\ gpc = "done"
    /\ Len(shorts) = 5
    /\ \E w \in 1..Len(scoredWindows), n \in 1..Len(selectedWindows) :
          /\ scoredWindows[w] # selectedWindows[n]
          /\ Intersect(scoredWindows[w].start, scoredWindows[w].end,
                       selectedWindows[n].start, selectedWindows[n].end)

\* C8: every candidate window of the search lasts between 30 and 60 seconds,
\* starts where segment startIdx starts, ends where segment endIdx ends, and
\* startIdx <= endIdx.
C8_WindowsWithinTarget ==
    \A w \in 1..Len(scoredWindows) :
        LET window == scoredWindows[w] IN
        /\ window.end - window.start >= 30000
        /\ window.end - window.start <= 60000
        /\ window.startIdx >= 0
        /\ window.startIdx <= window.endIdx
        /\ window.endIdx < Len(transcript)
        /\ window.start = transcript[window.startIdx + 1].start
        /\ window.end = transcript[window.endIdx + 1].end

\* C8, witness: the search has run over a transcript with segments too short
\* to be windows on their own and has pushed windows of exactly 30 and of
\* exactly 60 seconds.
C8_WindowsAtBothBounds ==
    /\ gpc = "done"
    /\ \E n \in 1..Len(transcript) : transcript[n].end - transcript[n].start < 30000
    /\ \E w \in 1..Len(scoredWindows) : scoredWindows[w].end - scoredWindows[w].start = 30000
    /\ \E w \in 1..Len(scoredWindows) : scoredWindows[w].end - scoredWindows[w].start = 60000

(***************************************************************************)
(* parseVTT (C5, C6, C7)                                                    *)
(***************************************************************************)

\* C5: the segments parseVTT returns do not overlap: of two consecutive
\* segments a, b, a.end <= b.start.
C5_SegmentsDoNotOverlap ==
    \A n \in 1..(Len(vttSegments) - 1) : vttSegments[n].end <= vttSegments[n + 1].start

\* C6: every segment parseVTT returns has end >= start, and the segments'
\* starts are non-decreasing.
C6_SegmentsOrdered ==
    /\ \A n \in 1..Len(vttSegments) : vttSegments[n].end >= vttSegments[n].start
    /\ \A n \in 1..(Len(vttSegments) - 1) : vttSegments[n].start <= vttSegments[n + 1].start

\* C6, witness: parseVTT has returned a merged segment: one that starts with
\* the first cue and ends with the second.
C6_MergedSegmentReturned ==
    /\ gpc = "clips"
    /\ Len(vttNodes) = 2
    /\ Len(vttSegments) = 1
    /\ vttSegments[1].start = vttNodes[1].start
    /\ vttSegments[1].end = vttNodes[2].end
    /\ vttNodes[2].start > vttNodes[1].end

\* The cues (0.0, 2.0, "hello world") and (1.8, 4.0, "hello world today").
ProgressiveCues(nodes) ==
    /\ Len(nodes) = 2
    /\ <<nodes[1].start, nodes[1].end, cleanVTTText(nodes[1].text)>> = <<0, 2000, "hello world">>
    /\ <<nodes[2].start, nodes[2].end, cleanVTTText(nodes[2].text)>> = <<1800, 4000, "hello world today">>

\* C7, as the code has it: of the cues (0.0, 2.0, "hello world") and
\* (1.8, 4.0, "hello world today") the second pass keeps "hello world" and
\* then only the new word "today"; the two start less than 0.5 s apart and
\* the first has fewer than 8 words, so the third pass merges them: parseVTT
\* returns the one segment (0.0, 4.0, "hello world today").
C7_ProgressiveCuesMerged ==
    ProgressiveCues(vttNodes) =>
        /\ extractNew(collectCues(vttNodes, 1, <<>>), 1, "", <<>>)
             = << [start |-> 0, end |-> 2000, text |-> "hello world"],
                  [start |-> 1800, end |-> 4000, text |-> "today"] >>
        /\ vttSegments = << [start |-> 0, end |-> 4000, text |-> "hello world today"] >>

\* C7, witness: the file with these two cues has been parsed.
C7_ProgressiveCuesParsed == ProgressiveCues(vttNodes) /\ gpc = "clips"

\* C7, as stated: the output for these cues is two segments, "hello world"
\* and then "today".
C7_ProgressiveCuesTwoSegments ==
    ProgressiveCues(vttNodes) =>
        /\ Len(vttSegments) = 2
        /\ vttSegments[1].text = "hello world"
        /\ vttSegments[2].text = "today"

(***************************************************************************)
(* chunkSegments (C9, C10)                                                  *)
(***************************************************************************)

\* The SRT step of the download handler has run over at least one segment.
Chunked == dpc = "ffmpeg" /\ Len(dlSegments) > 0

\* The words of a text, and a segment's cleaned text.
WordsOf(text) == SelectSeq(splitWs(text), LAMBDA w : Len(w) > 0)
CleanedText(seg) == trim(decodeHtmlEntities(seg.text))

\* The texts of a list of chunks, joined by single spaces.
JoinedTexts(chunks) == join([n \in 1..Len(chunks) |-> chunks[n].text], " ")

\* The words of the first n segments of a list, in order.
RECURSIVE WordsOfSegments(_, _)
WordsOfSegments(segs, n) ==
    IF n = 0 THEN <<>>
    ELSE WordsOfSegments(segs, n - 1) \o WordsOf(CleanedText(segs[n]))

\* C9: for maxWords in 2..10, the texts of a segment's chunks, joined in order
\* by single spaces, are the words of the segment's cleaned text, each once
\* and in order; they are the cleaned text itself when its words are single
\* spaced.  So for the whole request: chunked holds the words of all segments.
C9_ChunksKeepTheWords ==
    (Chunked /\ maxWordsOf(captionStyle) \in 2..10) =>
        /\ \A n \in 1..Len(dlSegments) :
              \A chunks \in {chunkSegments(<<dlSegments[n]>>, maxWordsOf(captionStyle), dlStart)},
                 cleanText \in {CleanedText(dlSegments[n])} :
                  /\ WordsOf(JoinedTexts(chunks)) = WordsOf(cleanText)
                  /\ ~includes(cleanText, "  ") => JoinedTexts(chunks) = cleanText
        /\ WordsOf(JoinedTexts(chunked)) = WordsOfSegments(dlSegments, Len(dlSegments))

\* C9, witness: a segment whose text holds entities and a double space has
\* been split into several chunks, with maxWords in 2..10.
C9_EntityTextSplit ==
    /\ Chunked
    /\ maxWordsOf(captionStyle) \in 2..10
    /\ Len(dlSegments) = 1
    /\ includes(dlSegments[1].text, "&amp;")
    /\ includes(CleanedText(dlSegments[1]), "  ")
    /\ Len(chunked) >= 3

\* C10: a segment with more words than maxWords (wordCount of them) is cut
\* into groups of maxWords words; group g (from 0) starts at
\* start + g*maxWords*timePerWord and ends at
\* min(end, start + (g*maxWords + groupLen)*timePerWord), where
\* timePerWord = (end - start)/wordCount.  A segment of 1..maxWords words
\* gives one caption over its own [start, end].  With maxWords = 5 the seven
\* words of (10.0, 15.0) give (10.0, 10 + 25/7) with five words and
\* (10 + 25/7, 15.0) with two.
C10_ChunkTiming ==
    Chunked =>
        /\ \A n \in 1..Len(dlSegments) :
              \A seg \in {dlSegments[n]}, maxWords \in {maxWordsOf(captionStyle)} :
              \A wordCount \in {Len(WordsOf(CleanedText(seg)))},
                 chunks \in {chunkSegments(<<seg>>, maxWords, dlStart)} :
                  /\ wordCount > maxWords =>
                        /\ Len(chunks) = (wordCount + maxWords - 1) \div maxWords
                        /\ \A g \in 0..(Len(chunks) - 1) :
                              LET groupLen == Len(WordsOf(chunks[g + 1].text)) IN
                              /\ groupLen = Min(maxWords, wordCount - g * maxWords)
                              /\ RatEq(chunks[g + 1].start,
                                       Rat(seg.start * wordCount
                                             + g * maxWords * (seg.end - seg.start), wordCount))
                              /\ RatEq(chunks[g + 1].end,
                                       RatMin(Rat(seg.end, 1),
                                              Rat(seg.start * wordCount
                                                    + (g * maxWords + groupLen) * (seg.end - seg.start),
                                                  wordCount)))
                  /\ (wordCount >= 1 /\ wordCount <= maxWords) =>
                        /\ Len(chunks) = 1
                        /\ RatEq(chunks[1].start, Rat(seg.start, 1))
                        /\ RatEq(chunks[1].end, Rat(seg.end, 1))
        /\ (/\ dlSegments = << [start |-> 10000, end |-> 15000,
                                text |-> "one two three four five six seven"] >>
            /\ maxWordsOf(captionStyle) = 5) =>
               /\ Len(chunked) = 2
               /\ RatEq(chunked[1].start, Rat(10000, 1))
               /\ RatEq(chunked[1].end, Rat(10000 * 7 + 25000, 7))
               /\ chunked[1].text = "one two three four five"
               /\ RatEq(chunked[2].start, Rat(10000 * 7 + 25000, 7))
               /\ RatEq(chunked[2].end, Rat(15000, 1))
               /\ chunked[2].text = "six seven"

\* C10, witness: the seven-word segment (10.0, 15.0) has been chunked with
\* maxWords = 5, the default taken for a request without one.
C10_SevenWordsChunked ==
    /\ Chunked
    /\ dlSegments = << [start |-> 10000, end |-> 15000,
                        text |-> "one two three four five six seven"] >>
    /\ captionStyle.maxWords = 0
    /\ Len(chunked) = 2

\* C11: the preview shows, for the segment under the playhead, the text of
\* the one export chunk (chunkSegments) whose interval [start, end) holds the
\* playhead; it shows nothing exactly when the segment has no export chunk.
C11_PreviewMatchesExport ==
    (pvpc = "ready" /\ Len(currentSegment) = 1) =>
        \A chunks \in {chunkSegments(currentSegment, pvStyle.maxWords, 0)} :
            LET active == {i \in 1..Len(chunks) :
                              /\ ~RatLess(currentTime, chunks[i].start)
                              /\ RatLess(currentTime, chunks[i].end)}
            IN  IF Len(chunks) = 0 THEN captionText = <<>>
                ELSE /\ Cardinality(active) = 1
                     /\ \A i \in active : captionText = <<chunks[i].text>>

\* C11 witness: the playhead stands exactly where a later chunk of a split
\* segment begins, and the preview shows that chunk.
C11_PlayheadAtChunkStart ==
    /\ pvpc = "ready" /\ Len(currentSegment) = 1
    /\ \E chunks \in {chunkSegments(currentSegment, pvStyle.maxWords, 0)} :
          /\ Len(chunks) >= 3
          /\ RatEq(currentTime, chunks[2].start)
          /\ captionText = <<chunks[2].text>>

\* The milliseconds a subtitle timestamp HH:MM:SS,mmm stands for.
DigitOf(c) == CHOOSE d \in 0..9 : ToString(d) = c
RECURSIVE NumberOf(_)
NumberOf(s) ==
    IF Len(s) = 0 THEN 0
    ELSE 10 * NumberOf(SubSeq(s, 1, Len(s) - 1)) + DigitOf(Ch(s, Len(s)))
SrtMs(s) ==
    3600000 * NumberOf(SubSeq(s, 1, 2)) + 60000 * NumberOf(SubSeq(s, 4, 5))
        + 1000 * NumberOf(SubSeq(s, 7, 8)) + NumberOf(SubSeq(s, 10, Len(s)))

\* C12: for a clip of duration L = end - start, every timestamp in the
\* subtitle file lies within [0, L], and no entry is shorter than 0.1 s or
\* has a blank text.
C12_TimestampsWithinClip ==
    Chunked =>
        \A n \in 1..Len(srtEntries) :
            /\ 0 <= SrtMs(srtEntries[n].start)
            /\ SrtMs(srtEntries[n].start) <= dlEnd - dlStart
            /\ SrtMs(srtEntries[n].end) <= dlEnd - dlStart
            /\ SrtMs(srtEntries[n].end) - SrtMs(srtEntries[n].start) >= 100
            /\ Len(trim(srtEntries[n].text)) > 0

\* C13: the entries of the subtitle file carry the indices 1, 2, ..., n in
\* order, also when captions were dropped.
C13_IndicesSequential ==
    Chunked => \A n \in 1..Len(srtEntries) : srtEntries[n].index = n

\* C14: a supplied fontSize reaches the style directives as
\* min(48, max(12, fontSize)), and a supplied maxWords chunks the captions as
\* min(10, max(2, maxWords)).
C14_StyleClamped ==
    Chunked =>
        /\ captionStyle.fontSize # 0 =>
               forceStyle.FontSize = Min(48, Max(12, captionStyle.fontSize))
        /\ captionStyle.maxWords # 0 =>
               chunked = chunkSegments(dlSegments, Min(10, Max(2, captionStyle.maxWords)), dlStart)

\* The text findBestClips hands to scoreClip for a window: " " and the text
\* of each of its segments, in turn.
WindowTextOf(w) ==
    " " \o join([n \in 1..(w.endIdx - w.startIdx + 1) |-> transcript[w.startIdx + n].text], " ")

\* How many times the engagement keywords occur in a text, taken together.
KeywordOccurrences(lowerText) ==
    Cardinality({at \in (1..Len(engagementWords)) \X (1..Len(lowerText)) :
        /\ at[2] + Len(engagementWords[at[1]]) - 1 <= Len(lowerText)
        /\ SubSeq(lowerText, at[2], at[2] + Len(engagementWords[at[1]]) - 1) = engagementWords[at[1]]})

\* C15: every candidate window's score holds 10 points for each occurrence
\* of each engagement keyword in its text, repeated occurrences included.
C15_EveryOccurrenceCounts ==
    gpc = "done" =>
        \A n \in 1..Len(scoredWindows) :
            \A text \in {WindowTextOf(scoredWindows[n])} :
                scoredWindows[n].score =
                    scoreClip(text, scoredWindows[n].end - scoredWindows[n].start)
                      - 1000 * keywordScore(text)
                      + 1000 * 10 * KeywordOccurrences(toLowerCase(text))

\* C16: every candidate window's score holds the 15 points of the word-count
\* bonus exactly when its text has 50 to 150 words.
C16_BonusFromFiftyTo150Words ==
    gpc = "done" =>
        \A n \in 1..Len(scoredWindows) :
            \A text \in {WindowTextOf(scoredWindows[n])} :
                scoredWindows[n].score =
                    scoreClip(text, scoredWindows[n].end - scoredWindows[n].start)
                      - 1000 * wordCountBonus(text)
                      + 1000 * (IF Len(WordsOf(text)) >= 50 /\ Len(WordsOf(text)) <= 150
                                THEN 15 ELSE 0)

\* C17: the candidates are walked in descending order of score, of two with
\* the same score the one that starts earlier first; a candidate is accepted
\* exactly when fewer than five were accepted before it and it intersects
\* none of them.
C17_WalkByScoreThenStart ==
    gpc = "done" =>
        \A sel \in {{selectedWindows[k] : k \in 1..Len(selectedWindows)}} :
            /\ \A a, b \in 1..Len(scoredWindows) :
                   a < b => \/ scoredWindows[a].score > scoredWindows[b].score
                            \/ /\ scoredWindows[a].score = scoredWindows[b].score
                               /\ scoredWindows[a].start <= scoredWindows[b].start
            /\ \A n \in 1..Len(scoredWindows) :
                   scoredWindows[n] \in sel <=>
                       \A before \in {{m \in 1..(n - 1) : scoredWindows[m] \in sel}} :
                           /\ Cardinality(before) < maxShorts
                           /\ \A m \in before :
                                  ~Intersect(scoredWindows[n].start, scoredWindows[n].end,
                                             scoredWindows[m].start, scoredWindows[m].end)

\* C17 witness: of two candidates with the same score the earlier one was
\* accepted as the fifth, and the later one, which intersects no accepted
\* window, was left out.
C17_TieDecidesTheFifth ==
    /\ gpc = "done"
    /\ \E sel \in {{selectedWindows[k] : k \in 1..Len(selectedWindows)}} :
          \E a, b \in 1..Len(scoredWindows) :
             /\ scoredWindows[a].score = scoredWindows[b].score
             /\ scoredWindows[a].start < scoredWindows[b].start
             /\ scoredWindows[a] \in sel
             /\ scoredWindows[b] \notin sel
             /\ \A w \in sel : ~Intersect(scoredWindows[b].start, scoredWindows[b].end, w.start, w.end)

\* The transcript is a synthetic one: the captions gave no segment.
Synthesized == gpc \in {"clips", "done"} /\ Len(vttSegments) = 0

\* C18: the synthetic transcript of a duration D has ceil(D / 15 s)
\* segments, the k-th (from 0) spanning [15k, min(15k + 15, D)] with the
\* text pool[k mod 6]; D is the video's duration, or 300 s when that is not
\* known, and for D = 300 s these are 20 segments of 15 s each.
C18_FallbackCoversDuration ==
    Synthesized =>
        /\ \E D \in {videoInfo.duration, 300000} :
              /\ Len(transcript) = (D + 14999) \div 15000
              /\ \A k \in 0..(Len(transcript) - 1) :
                     /\ transcript[k + 1].start = 15000 * k
                     /\ transcript[k + 1].end = Min(15000 * k + 15000, D)
                     /\ transcript[k + 1].text = placeholderTexts[(k % 6) + 1]
        /\ \A k \in 1..(Len(transcript) - 1) : transcript[k].end = transcript[k + 1].start
        /\ (Len(transcript) > 0 /\ transcript[Len(transcript)].end = 300000) =>
              /\ Len(transcript) = 20
              /\ \A k \in 1..20 : transcript[k].end - transcript[k].start = 15000

\* C18 witness: the synthetic transcript of a video of 112.5 s: eight
\* segments, the last of 7.5 s, the seventh with the text of the first.
C18_LastSegmentCut ==
    /\ Synthesized
    /\ videoInfo.duration = 112500
    /\ Len(transcript) = 8
    /\ transcript[8].start = 105000 /\ transcript[8].end = 112500
    /\ transcript[7].text = transcript[1].text

\* C19: the segments of every Short are the transcript's segments
\* startIdx..endIdx of its window, shifted by the window's start; the first
\* starts at 0, and every start and end lies within
\* [0, window.end - window.start].
C19_ShortSegmentsWithinClip ==
    gpc = "done" =>
        \A n \in 1..Len(shorts) :
            \A w \in {selectedWindows[n]} :
                /\ Len(shorts[n].segments) = w.endIdx - w.startIdx + 1
                /\ \A k \in 1..Len(shorts[n].segments) :
                       /\ shorts[n].segments[k].start = transcript[w.startIdx + k].start - w.start
                       /\ shorts[n].segments[k].end = transcript[w.startIdx + k].end - w.start
                       /\ shorts[n].segments[k].text = transcript[w.startIdx + k].text
                       /\ 0 <= shorts[n].segments[k].start
                       /\ shorts[n].segments[k].start <= w.end - w.start
                       /\ 0 <= shorts[n].segments[k].end
                       /\ shorts[n].segments[k].end <= w.end - w.start
                /\ shorts[n].segments[1].start = 0

\* C20: with a processing budget of 20 segments, a transcript of more than
\* 20 segments never gets through the window search: the request ends in an
\* error instead.
C20_BudgetStopsSearch ==
    Len(transcript) > 20 => gpc # "done"

(***************************************************************************)
(* findBestClips: the window search and the selection (C21, C22)            *)
(***************************************************************************)

\* The transcript is the one parseVTT returned, and the clips were chosen.
ParsedAndDone == gpc = "done" /\ Len(vttSegments) > 0 /\ transcript = vttSegments

\* C21: the window search is complete over parseVTT's segments: for every
\* pair of indices i <= j with 30 s <= segments[j].end - segments[i].start
\* <= 60 s, the search has pushed the candidate (startIdx = i, endIdx = j).
C21_EveryQualifyingWindowFound ==
    ParsedAndDone =>
        \A i, j \in 1..Len(transcript) :
            (i <= j /\ inTargetDuration(transcript[j].end - transcript[i].start))
              => \E w \in 1..Len(scoredWindows) :
                    /\ scoredWindows[w].startIdx = i - 1
                    /\ scoredWindows[w].endIdx = j - 1

\* The candidates the walk took, as positions of scoredWindows (the order of
\* the walk).
Accepted == {w \in 1..Len(scoredWindows) :
                \E n \in 1..Len(selectedWindows) : selectedWindows[n] = scoredWindows[w]}

WindowsIntersect(a, b) == Intersect(a.start, a.end, b.start, b.end)

\* C22: for every pair of candidate windows the selector's overlap check is
\* the half-open intersection test a.start < b.end /\ b.start < a.end; until
\* five are accepted, a candidate is turned down exactly when it intersects
\* a window accepted before it, so windows that only touch are both kept.
C22_OverlapCheckIsIntersection ==
    gpc = "done" =>
        /\ \A a, b \in 1..Len(scoredWindows) :
              overlapsSelected(scoredWindows[a], scoredWindows[b])
                <=> WindowsIntersect(scoredWindows[a], scoredWindows[b])
        /\ \A w \in 1..Len(scoredWindows) :
              LET before == {v \in Accepted : v < w}
              IN  IF Cardinality(before) >= maxShorts THEN w \notin Accepted
                  ELSE w \in Accepted
                         <=> ~\E v \in before :
                                 WindowsIntersect(scoredWindows[w], scoredWindows[v])

\* C22, witness: two accepted windows touch (one ends where the other
\* starts), and a candidate was turned down before five were accepted.
C22_TouchingWindowsBothKept ==
    /\ gpc = "done"
    /\ \E m, n \in 1..Len(selectedWindows) : selectedWindows[m].end = selectedWindows[n].start
    /\ \E w \in 1..Len(scoredWindows) :
          w \notin Accepted /\ Cardinality({v \in Accepted : v < w}) < maxShorts

(***************************************************************************)
(* parseVTT: the second and third pass (C23, C24)                           *)
(***************************************************************************)

\* The last k words of lastWords are, but for case, the first k of currentWords.
EndsMeetStart(lastWords, currentWords, k) ==
    \A n \in 1..k :
        toLowerCase(lastWords[Len(lastWords) - k + n]) = toLowerCase(currentWords[n])

\* The new text of a cue as C23 has it, given the text of the cue before.
NewTextAfter(cueText, previousText) ==
    IF startsWith(toLowerCase(cueText), toLowerCase(previousText))
    THEN trim(SubSeq(cueText, Len(previousText) + 1, Len(cueText)))
    ELSE LET lastWords == splitWs(previousText)
             currentWords == splitWs(cueText)
             k == SetMax({n \in 0..Min(Len(lastWords), Len(currentWords)) :
                             EndsMeetStart(lastWords, currentWords, n)})
         IN  IF k = 0 THEN cueText
             ELSE join(SubSeq(currentWords, k + 1, Len(currentWords)), " ")

\* The segments of the second pass as C23 has them: cue n is compared with
\* the cleaned text of cue n - 1, whatever became of that cue.
NewSegmentsOf(cues) ==
    LET new == [n \in 1..Len(cues) |->
                   [start |-> cues[n].start, end |-> cues[n].end,
                    text |-> IF n = 1 THEN cues[n].text
                             ELSE NewTextAfter(cues[n].text, cues[n - 1].text)]]
    IN  SelectSeq(new, LAMBDA seg : Len(seg.text) > 1)

\* C23: for each cue after the first, if its text starts (case aside) with
\* the text of the cue before it, its new text is the rest; otherwise its
\* new text is its words after the largest k such that the last k words of
\* the cue before are its first k words (k = 0: the whole text).  The cue
\* before is always compared by its own cleaned text, also when it gave no
\* segment.
C23_NewTextAgainstPreviousCue ==
    gpc \in {"clips", "fallback", "done"} =>
        \A cues \in {collectCues(vttNodes, 1, <<>>)} :
            \A new \in {NewSegmentsOf(cues)} :
                /\ extractNew(cues, 1, "", <<>>) = new
                /\ vttSegments = IF Len(cues) = 0 THEN <<>> ELSE mergeShort(new, 1, <<>>, <<>>)

\* C23, witness: of the cues "hello world today", "world today a" and
\* "today a b c" the second brought only "a" and gave no segment; the third
\* was compared with it and brought "b c".
C23_ComparedWithSilentCue ==
    /\ gpc = "clips"
    /\ Len(vttNodes) = 3
    /\ <<vttNodes[1].text, vttNodes[2].text, vttNodes[3].text>>
          = <<"hello world today", "world today a", "today a b c">>
    /\ \E new \in {extractNew(vttNodes, 1, "", <<>>)} :
          Len(new) = 2 /\ new[2].text = "b c" /\ new[2].start = vttNodes[3].start

\* The segments of the second pass, for the cue nodes read.
SecondPass == extractNew(collectCues(vttNodes, 1, <<>>), 1, "", <<>>)

\* raw[from..to] as one segment: the first one's start, the last one's end,
\* the texts in order with a space between them.
GroupOf(raw, from, to) ==
    [start |-> raw[from].start, end |-> raw[to].end,
     text |-> join([k \in 1..(to - from + 1) |-> raw[from + k - 1].text], " ")]

\* raw cut into runs that begin at index 1 and at the indices in cuts, each
\* run as one segment.
GroupsOf(raw, cuts) ==
    LET firsts == {1} \cup cuts
        firstOf(n) == CHOOSE a \in firsts : Cardinality({b \in firsts : b < a}) = n - 1
        lastOf(n) == IF n = Cardinality(firsts) THEN Len(raw) ELSE firstOf(n + 1) - 1
    IN  [n \in 1..Cardinality(firsts) |-> GroupOf(raw, firstOf(n), lastOf(n))]

\* C24: in parseVTT's output every segment but the last has at least 8
\* words or is followed by a gap of at least 0.5 s; every segment is a run
\* of consecutive second-pass segments: it starts with the first of them,
\* ends with the last, and its text is theirs joined by single spaces.
C24_MergedUntilLongOrApart ==
    gpc \in {"clips", "fallback", "done"} =>
        /\ \A n \in 1..(Len(vttSegments) - 1) :
              \/ Len(splitWs(vttSegments[n].text)) >= 8
              \/ vttSegments[n + 1].start - vttSegments[n].end >= 500
        /\ \A raw \in {SecondPass} :
              IF Len(raw) = 0 THEN vttSegments = <<>>
              ELSE \E cuts \in SUBSET (2..Len(raw)) : vttSegments = GroupsOf(raw, cuts)

\* C24, witness: two cues came back as two segments: the first has fewer
\* than eight words, and the second starts 0.5 s or more after its end.
C24_KeptApartByGap ==
    /\ gpc = "clips"
    /\ Len(vttSegments) = 2
    /\ Len(splitWs(vttSegments[1].text)) < 8
    /\ vttSegments[2].start - vttSegments[1].end >= 500

(***************************************************************************)
(* generateSrt and the burn-in style (C25, C26, C27)                        *)
(***************************************************************************)

\* The export shows chunk c at the times the preview shows it: the times
\* chunkSegments gives it within the clip.
ExportedAsPreviewed(c) ==
    \E n \in 1..Len(srtEntries) :
        /\ srtEntries[n].text = chunked[c].text
        /\ srtEntries[n].start = toSrtTime(chunked[c].start)
        /\ srtEntries[n].end = toSrtTime(chunked[c].end)

\* C25: whatever the clip start S, a caption of the clip-relative segments
\* that has a text and lasts 0.1 s or more is in the subtitle file at the
\* clip-relative start and end at which the preview shows it.
C25_NoDriftForAnyClipStart ==
    Chunked =>
        \A c \in 1..Len(chunked) :
            (/\ Len(trim(chunked[c].text)) > 0
             /\ ~RatLess(RatSub(chunked[c].end, chunked[c].start), Rat(100, 1)))
              => ExportedAsPreviewed(c)

\* The time entry number index was made of: chunk index's time less the
\* clip start, not below 0.
ShiftedTime(t) == RatMax(Rat(0, 1), RatSub(t, Rat(dlStart, 1)))

\* The text s is a timestamp HH:MM:SS,mmm with minutes and seconds up to 59,
\* and stands for a time within 1 ms of t.
WellFormedFor(s, t) ==
    /\ Len(s) = 12
    /\ NumberOf(SubSeq(s, 4, 5)) <= 59
    /\ NumberOf(SubSeq(s, 7, 8)) <= 59
    /\ NumberOf(SubSeq(s, 10, Len(s))) <= 999
    /\ Abs(SrtMs(s) * t[2] - t[1]) <= t[2]

\* C26: toSrtTime renders every time as HH:MM:SS,mmm, minutes and seconds
\* in 00..59 and three digits of milliseconds in 000..999, within 1 ms of
\* the time, also when the fraction of the second rounds up to a full second.
C26_TimestampsWellFormed ==
    Chunked =>
        \A n \in 1..Len(srtEntries) :
            /\ WellFormedFor(srtEntries[n].start, ShiftedTime(chunked[srtEntries[n].index].start))
            /\ WellFormedFor(srtEntries[n].end, ShiftedTime(chunked[srtEntries[n].index].end))

HexDigits == {"0", "1", "2", "3", "4", "5", "6", "7", "8", "9",
              "A", "B", "C", "D", "E", "F", "a", "b", "c", "d", "e", "f"}

\* The directive is &H00BBGGRR& for the colour: six hex digits, the
\* colour's B byte first, its G byte in the middle, its R byte last.
SwappedOf(directive, colour) ==
    /\ Len(directive) = 11
    /\ SubSeq(directive, 1, 4) = "&H00"
    /\ Ch(directive, 11) = "&"
    /\ \A i \in 5..10 : Ch(directive, i) \in HexDigits
    /\ SubSeq(directive, 5, 6) = SubSeq(colour, 6, 7)
    /\ SubSeq(directive, 7, 8) = SubSeq(colour, 4, 5)
    /\ SubSeq(directive, 9, 10) = SubSeq(colour, 2, 3)

\* The triplet of a directive, read as a colour again.
ColourOf(directive) == "#" \o SubSeq(directive, 5, Len(directive) - 1)

\* C27: for every colour a caption style may hold (a #RRGGBB string, or
\* "transparent" as the background) the style directive made of it is a
\* well-formed &H00BBGGRR& with the R and B bytes swapped and the G byte
\* kept, and swapping twice gives the colour back.
C27_ColoursSwapped ==
    Chunked =>
        /\ SwappedOf(forceStyle.PrimaryColour, fontColorOf(captionStyle))
        /\ SwappedOf(forceStyle.BackColour, bgColorOf(captionStyle))
        /\ ColourOf(hexToAssBgr(ColourOf(forceStyle.PrimaryColour))) = fontColorOf(captionStyle)
        /\ ColourOf(hexToAssBgr(ColourOf(forceStyle.BackColour))) = bgColorOf(captionStyle)

(***************************************************************************)
(* findBestClips: the Shorts it emits (C28, C29)                            *)
(***************************************************************************)

\* whole is the number of whole seconds in ms milliseconds.
IsFloorOf(whole, ms) == whole * 1000 <= ms /\ ms < whole * 1000 + 1000

\* C28: every emitted Short has startTime = floor(window.start) and
\* endTime = floor(window.end), in seconds, with 30 <= endTime - startTime
\* <= 60, and the floored intervals of two emitted Shorts do not intersect.
C28_FlooredShortsWellFormed ==
    gpc = "done" =>
        /\ Len(shorts) = Len(selectedWindows)
        /\ \A n \in 1..Len(shorts) :
              /\ IsFloorOf(shorts[n].startTime, selectedWindows[n].start)
              /\ IsFloorOf(shorts[n].endTime, selectedWindows[n].end)
              /\ shorts[n].endTime - shorts[n].startTime >= 30
              /\ shorts[n].endTime - shorts[n].startTime <= 60
        /\ \A m, n \in 1..Len(shorts) :
              m # n => ~Intersect(shorts[m].startTime, shorts[m].endTime,
                                  shorts[n].startTime, shorts[n].endTime)

\* C28, witness: two Shorts were emitted, and flooring changed the length of
\* one of them: its window does not last a whole number of seconds.
C28_FlooringChangedALength ==
    /\ gpc = "done"
    /\ Len(shorts) >= 2
    /\ \E n \in 1..Len(shorts) :
          (shorts[n].endTime - shorts[n].startTime) * 1000
              # selectedWindows[n].end - selectedWindows[n].start

\* C29: when fewer than five Shorts are emitted, every candidate window of
\* the search intersects a selected window (a selected one intersects
\* itself); and when there is a candidate at all, one of the highest score
\* is among the selected.
C29_GreedySelectionMaximal ==
    gpc = "done" =>
        /\ Len(shorts) = Len(selectedWindows)
        /\ Len(shorts) < 5 =>
              \A w \in 1..Len(scoredWindows) :
                  \E n \in 1..Len(selectedWindows) :
                      WindowsIntersect(scoredWindows[w], selectedWindows[n])
        /\ Len(scoredWindows) > 0 =>
              \E n \in 1..Len(selectedWindows) :
                  \A w \in 1..Len(scoredWindows) :
                      selectedWindows[n].score >= scoredWindows[w].score

\* C29, witness: fewer than five Shorts were emitted although the search
\* found more candidates than that, each turned down for a selected window
\* it intersects.
C29_FewerThanFiveOfMany ==
    /\ gpc = "done"
    /\ Len(shorts) >= 2
    /\ Len(shorts) < 5
    /\ Len(scoredWindows) > 5

(***************************************************************************)
(* chunkSegments: the end of the chunk loop (C30)                           *)
(***************************************************************************)

\* C30: for every maxWords a request's captionStyle can bring, the chunk
\* loop of chunkSegments makes progress (its index moves towards the number
\* of words) and generateSrt returns: the handler is in that loop only with
\* an index that grows.
C30_ChunkLoopMakesProgress ==
    dpc = "chunking" =>
        (Len(chunked) + 1) * maxWordsOf(captionStyle) > Len(chunked) * maxWordsOf(captionStyle)

====
